---------------------------- MODULE Spec2Model ----------------------------
(***************************************************************************)
(* A model of cider: the configuration builder (utils/parsing.rs), the     *)
(* configuration entities (utils/config.rs) and the action executor        *)
(* (utils/executor.rs), driven by main (main.rs).                          *)
(*                                                                         *)
(* Text.  A string with structure (a path, a script, captured output, a    *)
(* log line, a generated file) is a sequence of atoms.  The characters the *)
(* code looks at (".", "/", "\\", ":", " ", "\n") are atoms of their own;  *)
(* a run of other characters ("dist", "hello") is one atom.  Strings that  *)
(* the code only copies or compares whole (backend, language, image,       *)
(* titles, names) are TLA+ strings.                                        *)
(*                                                                         *)
(* Option<T>.  None is <<>>, Some(x) is <<x>>.                             *)
(***************************************************************************)
EXTENDS Integers, Sequences, FiniteSets, TLC

None == <<>>
Some(x) == <<x>>
IsNone(o) == Len(o) = 0
IsSome(o) == Len(o) = 1
Unwrap(o) == o[1]

(***************************************************************************)
(* Results of operations that may panic.                                   *)
(***************************************************************************)
Ok(v) == [ok |-> TRUE, val |-> Some(v), err |-> ""]
Panic(msg) == [ok |-> FALSE, val |-> None, err |-> msg]

(***************************************************************************)
(* Sequence helpers.                                                        *)
(***************************************************************************)
RECURSIVE Concat(_)
Concat(ss) == IF ss = <<>> THEN <<>> ELSE Head(ss) \o Concat(Tail(ss))

RECURSIVE Split(_, _)
\* str::split(c): the pieces between occurrences of c, empty pieces included.
Split(s, c) ==
    IF \A i \in 1..Len(s) : s[i] # c
    THEN <<s>>
    ELSE LET k == CHOOSE i \in 1..Len(s) :
                      s[i] = c /\ \A j \in 1..(i - 1) : s[j] # c
         IN  <<SubSeq(s, 1, k - 1)>> \o Split(SubSeq(s, k + 1, Len(s)), c)

\* str::contains(pat) for a pattern given as a sequence of atoms.
Contains(s, pat) ==
    \E i \in 1..(Len(s) - Len(pat) + 1) : SubSeq(s, i, i + Len(pat) - 1) = pat

StartsWith(s, c) == Len(s) > 0 /\ s[1] = c

Whitespace == {" ", "\n", "\r", "\t"}

RECURSIVE trim_end(_)
\* str::trim_end: trailing whitespace removed.
trim_end(s) ==
    IF Len(s) > 0 /\ s[Len(s)] \in Whitespace
    THEN trim_end(SubSeq(s, 1, Len(s) - 1))
    ELSE s

RECURSIVE trim(_)
\* str::trim: leading and trailing whitespace removed.
trim(s) ==
    IF Len(s) > 0 /\ s[1] \in Whitespace THEN trim(Tail(s)) ELSE trim_end(s)

\* str::to_lowercase on the backend names the model draws.
to_lowercase(s) ==
    CASE s = "Docker" -> "docker"
      [] s = "DOCKER" -> "docker"
      [] s = "Bash"   -> "bash"
      [] s = "BAT"    -> "bat"
      [] s = "Batch"  -> "batch"
      [] OTHER        -> s

(***************************************************************************)
(* Paths.                                                                   *)
(***************************************************************************)
\* std::path::MAIN_SEPARATOR of the build.
MAIN_SEPARATOR(win) == IF win THEN "\\" ELSE "/"

\* std::env::current_dir(): the process working directory.
current_dir(win) == IF win THEN <<"C", ":", "\\", "w">> ELSE <<"/", "w">>

RECURSIVE Collapse(_, _)
\* The components with "." dropped and ".." taking back the one before it.
Collapse(comps, acc) ==
    IF comps = <<>> THEN acc
    ELSE IF Head(comps) = <<".">> THEN Collapse(Tail(comps), acc)
    ELSE IF Head(comps) = <<".", ".">> /\ acc # <<>>
    THEN Collapse(Tail(comps), SubSeq(acc, 1, Len(acc) - 1))
    ELSE Collapse(Tail(comps), Append(acc, Head(comps)))

\* A components iterator that normalises.
Components_collapsed(raw) ==
    Collapse(SelectSeq(Split(raw, "/"), LAMBDA c : c # <<>>), <<>>)

\* RelativePath::components: the non-empty "/"-separated pieces; "." and ".."
\* are components like any other.
Components(raw) == SelectSeq(Split(raw, "/"), LAMBDA c : c # <<>>)

RECURSIVE PushComponents(_, _, _)
PushComponents(p, comps, win) ==
    IF comps = <<>> THEN p
    ELSE PushComponents(
             (IF p # <<>> THEN p \o <<MAIN_SEPARATOR(win)>> ELSE p) \o Head(comps),
             Tail(comps), win)

\* RelativePath::new(raw).to_path(root).to_str().unwrap().to_string()
to_path(raw, root, win) == PushComponents(root, Components(raw), win)

\* A builder that puts the working directory in front of an absolute text.
path_as_given_prefixed(raw) == <<"/", "w">> \o raw

\* Path::new(raw).to_owned().to_str().unwrap().to_owned(): the text as given.
path_as_given(raw) == raw

\* The test the builder makes for "already absolute".
looks_absolute(raw) == StartsWith(raw, "/") \/ Contains(raw, <<":">>)

(***************************************************************************)
(* Configuration entities (utils/config.rs).                                *)
(***************************************************************************)
\* A constructor that stores the image it is passed, whatever the backend.
ShareableConfiguration_new_unchecked(metadata, title, tags, language, image, backend, output, source, ignore_dirs) ==
    [metadata    |-> metadata,
     title       |-> title,
     tags        |-> tags,
     language    |-> language,
     image       |-> image,
     backend     |-> backend,
     output      |-> output,
     source      |-> source,
     ignore_dirs |-> ignore_dirs]

\* ShareableConfiguration::new.  The docker-only rule for image is applied
\* here; every other argument is stored as passed.  ignore_dirs is the ninth
\* argument of the revision the builder calls.
ShareableConfiguration_new(metadata, title, tags, language, image, backend, output, source, ignore_dirs) ==
    [metadata    |-> metadata,
     title       |-> title,
     tags        |-> tags,
     language    |-> language,
     image       |-> IF to_lowercase(backend) # "docker" THEN None ELSE image,
     backend     |-> backend,
     output      |-> output,
     source      |-> source,
     ignore_dirs |-> ignore_dirs]

get_metadata(self) == self.metadata
get_title(self) == self.title
get_tags(self) == self.tags
get_language(self) == self.language
get_image(self) == self.image
get_backend(self) == self.backend
get_output(self) == self.output
get_source(self) == self.source
get_ignore_dirs(self) == self.ignore_dirs

set_metadata(self, new_metadata) == [self EXCEPT !.metadata = Some(new_metadata)]
set_title(self, new_title) == [self EXCEPT !.title = Some(new_title)]
set_tags(self, new_tags) == [self EXCEPT !.tags = Some(new_tags)]
set_language(self, new_language) == [self EXCEPT !.language = new_language]

\* set_image: the non-docker branch assigns None, and the assignment after the
\* if then stores Some(new_image) whatever the backend is.
set_image(self, new_image) ==
    LET cleared == IF to_lowercase(get_backend(self)) # "docker"
                   THEN [self EXCEPT !.image = None]
                   ELSE self
    IN  [cleared EXCEPT !.image = Some(new_image)]

set_backend(self, new_backend) == [self EXCEPT !.backend = new_backend]
set_output(self, new_output) == [self EXCEPT !.output = new_output]

\* set_source assigns its argument to self.backend.
set_source(self, new_source) == [self EXCEPT !.backend = new_source]

Step_new(name, script) == [name |-> name, script |-> script]
Condition_new(name, condition) == [name |-> name, condition |-> condition]

ActionConfig_new(conditions, retries, allowed_failure, manual) ==
    [conditions      |-> conditions,
     retries         |-> IF IsNone(retries) THEN 0 ELSE Unwrap(retries),
     allowed_failure |-> IF IsNone(allowed_failure) THEN FALSE
                         ELSE Unwrap(allowed_failure),
     manual          |-> manual]

Action_new(shared_config, action_config) ==
    [shared_config |-> shared_config, action_config |-> action_config]

PipelineConfig_new(conditions, action_defs, actions, requires) ==
    [conditions  |-> conditions,
     action_defs |-> action_defs,
     actions     |-> actions,
     has_run     |-> FALSE,
     requires    |-> IF IsNone(requires) THEN <<>> ELSE Unwrap(requires)]

Pipeline_new(shared_config, pipeline_config) ==
    [shared_config |-> shared_config, pipeline_config |-> pipeline_config]

TopLevelConfiguration_new(s_config, pipeline_defs, pipelines, action_defs, actions) ==
    [s_config      |-> s_config,
     pipeline_defs |-> pipeline_defs,
     pipelines     |-> pipelines,
     action_defs   |-> action_defs,
     actions       |-> actions]

RECURSIVE pipeline_actions_from(_, _)
\* The inner loops of get_all_actions: the actions of pipelines[k..], pushed
\* pipeline by pipeline.
pipeline_actions_from(pipelines, k) ==
    IF k > Len(pipelines) THEN <<>>
    ELSE pipelines[k].pipeline_config.actions
             \o pipeline_actions_from(pipelines, k + 1)

\* A flattening that visits the pipelines before the top-level actions.
get_all_actions_pipelines_first(self) ==
    pipeline_actions_from(self.pipelines, 1) \o self.actions

\* TopLevelConfiguration::get_all_actions
get_all_actions(self) == self.actions \o pipeline_actions_from(self.pipelines, 1)

(***************************************************************************)
(* The JSON document (the json crate's JsonValue, as the builder reads it). *)
(* An object is a record of its keys, each an Option (None: the key is      *)
(* absent, json[key].is_null()); kids holds the named sub-documents.         *)
(***************************************************************************)
JNum(n) == [kind |-> "number", num |-> n, bool |-> FALSE]
JBool(b) == [kind |-> "boolean", num |-> 0, bool |-> b]
JStr == [kind |-> "string", num |-> 0, bool |-> FALSE]

\* JsonValue::as_i8: a number that fits a signed 8-bit integer.
as_i8(v) == IF v.kind = "number" /\ v.num \in -128..127 THEN Some(v.num) ELSE None

\* JsonValue::as_bool
as_bool(v) == IF v.kind = "boolean" THEN Some(v.bool) ELSE None

NoKids == [n \in {} |-> 0]

EmptyObject ==
    [title |-> None, metadata |-> None, tags |-> None, language |-> None,
     backend |-> None, image |-> None, output_directory |-> None,
     source_directory |-> None, ignore_directories |-> None,
     conditions |-> None, retries |-> None, allowed_failure |-> None,
     manual |-> None, actions |-> None, pipelines |-> None, requires |-> None,
     kids |-> NoKids]

\* json[name] for the name of a sub-document.
JGet(json, name) ==
    IF name \in DOMAIN json.kids THEN Some(json.kids[name]) ELSE None

\* JsonValue::entries / members of a key: nothing when the key is absent.
Entries(field) == IF IsNone(field) THEN <<>> ELSE Unwrap(field)

(***************************************************************************)
(* The configuration builder (utils/parsing.rs).                            *)
(***************************************************************************)
parse_json_map(field) == Unwrap(field)

parse_json_to_conditions(field) ==
    [i \in 1..Len(Entries(field)) |->
        Condition_new(Entries(field)[i].name, Entries(field)[i].value)]

parse_json_to_steps(field) ==
    [i \in 1..Len(Entries(field)) |->
        Step_new(Entries(field)[i].name, Entries(field)[i].value)]

parse_json_vector(field) == Entries(field)

\* One ignore_directories entry: kept as given when it looks absolute,
\* otherwise put under the working directory.
resolve_ignore_entry(dir, win) ==
    IF looks_absolute(dir) THEN path_as_given(dir)
    ELSE to_path(dir, current_dir(win), win)

resolve_ignore_entries(dirs, win) ==
    [i \in 1..Len(dirs) |-> resolve_ignore_entry(dirs[i], win)]

\* Blocks of parse_action and parse_pipeline (the two functions hold the same
\* text for them).
level_backend(shared_config, json) ==
    IF IsNone(json.backend) THEN get_backend(shared_config)
    ELSE Unwrap(json.backend)

\* A builder that never stores a level's metadata.
level_metadata_dropped(json) == None

level_metadata(json) ==
    IF IsNone(json.metadata) THEN None ELSE Some(parse_json_map(json.metadata))

level_tags(json) ==
    IF IsNone(json.tags) THEN None ELSE Some(parse_json_map(json.tags))

\* A builder that gives an absent language the default at every level.
level_language_reset(shared_config, json) ==
    IF IsNone(json.language) THEN "Python" ELSE Unwrap(json.language)

level_language(shared_config, json) ==
    IF IsNone(json.language) THEN get_language(shared_config)
    ELSE Unwrap(json.language)

level_image(shared_config, json, backend) ==
    IF /\ to_lowercase(backend) # "docker"
       /\ backend # ""
       /\ backend # "bash"
       /\ backend # "batch"
    THEN None
    ELSE IF IsNone(json.image) THEN get_image(shared_config)
    ELSE Some(Unwrap(json.image))

level_output(shared_config, json, win) ==
    IF IsNone(json.output_directory) THEN get_output(shared_config)
    ELSE to_path(Unwrap(json.output_directory), current_dir(win), win)

level_source(shared_config, json, win) ==
    IF IsNone(json.source_directory) THEN get_source(shared_config)
    ELSE IF looks_absolute(Unwrap(json.source_directory))
    THEN path_as_given(Unwrap(json.source_directory))
    ELSE to_path(Unwrap(json.source_directory), current_dir(win), win)

level_ignore_dirs(shared_config, json, win) ==
    IF IsNone(json.ignore_directories) THEN get_ignore_dirs(shared_config)
    ELSE LET ignore_dirs ==
                 resolve_ignore_entries(Unwrap(json.ignore_directories), win)
         IN  IF ignore_dirs # <<>> THEN Some(ignore_dirs) ELSE None

level_shared_config(shared_config, json, name, win) ==
    LET backend == level_backend(shared_config, json)
    IN  ShareableConfiguration_new(
            level_metadata(json),
            Some(name),
            level_tags(json),
            level_language(shared_config, json),
            level_image(shared_config, json, backend),
            backend,
            level_output(shared_config, json, win),
            level_source(shared_config, json, win),
            level_ignore_dirs(shared_config, json, win))

optional_conditions(json) ==
    LET conditions == parse_json_to_conditions(json.conditions)
    IN  IF conditions = <<>> THEN None ELSE Some(conditions)

\* A builder that accepts an action whose manual has no step.
parse_action_unguarded(shared_config, jsonOpt, name, win) ==
    IF IsNone(jsonOpt)
    THEN Panic("Could not find action defined with appropriate tag")
    ELSE Ok(Action_new(
             level_shared_config(shared_config, Unwrap(jsonOpt), name, win),
             ActionConfig_new(optional_conditions(Unwrap(jsonOpt)), Some(0),
                              Some(FALSE),
                              parse_json_to_steps(Unwrap(jsonOpt).manual))))

\* A builder that gives a missing action sub-document a one-step manual.
parse_action_missing_ok(shared_config, jsonOpt, name, win) ==
    Ok(Action_new(
           level_shared_config(shared_config,
                               IF IsNone(jsonOpt) THEN EmptyObject ELSE Unwrap(jsonOpt),
                               name, win),
           ActionConfig_new(None, Some(0), Some(FALSE),
                            << Step_new("s1", <<"echo", " ", "1">>) >>)))

parse_action(shared_config, jsonOpt, name, win) ==
    IF IsNone(jsonOpt)
    THEN Panic("Could not find action defined with appropriate tag")
    ELSE
    LET json == Unwrap(jsonOpt)
        new_shared_config == level_shared_config(shared_config, json, name, win)
        manual == parse_json_to_steps(json.manual)
    IN  IF ~IsNone(json.retries) /\ IsNone(as_i8(Unwrap(json.retries)))
        THEN Panic("There was no valid value for retries in the configuration")
        ELSE IF /\ ~IsNone(json.allowed_failure)
                /\ IsNone(as_bool(Unwrap(json.allowed_failure)))
        THEN Panic("There was no valid value for failure allowance")
        ELSE IF manual = <<>>
        THEN Panic("Actions require at least one step in their manual")
        ELSE Ok(Action_new(
                 new_shared_config,
                 ActionConfig_new(
                     optional_conditions(json),
                     IF IsNone(json.retries) THEN Some(0)
                     ELSE Some(Unwrap(as_i8(Unwrap(json.retries)))),
                     IF IsNone(json.allowed_failure) THEN Some(FALSE)
                     ELSE Some(Unwrap(as_bool(Unwrap(json.allowed_failure)))),
                     manual)))

\* The results of a list of fallible calls: the first panic, or all values.
Collect(rs) ==
    IF \E i \in 1..Len(rs) : ~rs[i].ok
    THEN Panic(rs[CHOOSE i \in 1..Len(rs) :
                      ~rs[i].ok /\ \A j \in 1..(i - 1) : rs[j].ok].err)
    ELSE Ok([i \in 1..Len(rs) |-> Unwrap(rs[i].val)])

parse_action_defs(shared_config, action_defs, data, win) ==
    Collect([i \in 1..Len(action_defs) |->
                parse_action(shared_config, JGet(data, action_defs[i]),
                             action_defs[i], win)])

parse_pipeline(shared_config, jsonOpt, name, win) ==
    IF IsNone(jsonOpt)
    THEN Panic("No pipeline found with the name")
    ELSE
    LET json == Unwrap(jsonOpt)
        new_shared_config == level_shared_config(shared_config, json, name, win)
        actions == parse_action_defs(new_shared_config,
                                     parse_json_vector(json.actions), json, win)
    IN  IF IsNone(json.actions)
        THEN Panic("No list of action definitions found!")
        ELSE IF ~actions.ok THEN Panic(actions.err)
        ELSE Ok(Pipeline_new(
                 new_shared_config,
                 PipelineConfig_new(
                     optional_conditions(json),
                     parse_json_vector(json.actions),
                     Unwrap(actions.val),
                     IF IsNone(json.requires) THEN None
                     ELSE Some(parse_json_vector(json.requires)))))

parse_pipeline_defs(shared_config, json, pipeline_defs, win) ==
    Collect([i \in 1..Len(pipeline_defs) |->
                parse_pipeline(shared_config, JGet(json, pipeline_defs[i]),
                               pipeline_defs[i], win)])

\* The blocks of parse_shared_config (the root level: the default table).
root_backend(json) ==
    IF IsNone(json.backend) THEN "bash" ELSE Unwrap(json.backend)

root_title(json) ==
    IF IsNone(json.title) THEN Some("null") ELSE Some(Unwrap(json.title))

root_language(json) ==
    IF IsNone(json.language) THEN "Python" ELSE Unwrap(json.language)

root_image(json, backend) ==
    IF /\ to_lowercase(backend) # "docker"
       /\ backend # ""
       /\ backend # "bash"
       /\ backend # "batch"
    THEN None
    ELSE IF IsNone(json.image) THEN None
    ELSE Some(Unwrap(json.image))

root_output(json, win) ==
    IF IsNone(json.output_directory)
    THEN to_path(<<".", "/", "dist", "/", "cider", "/">>, current_dir(win), win)
    ELSE to_path(Unwrap(json.output_directory), current_dir(win), win)

root_source(json, win) ==
    IF IsNone(json.source_directory)
    THEN to_path(<<".", "/">>, current_dir(win), win)
    ELSE IF looks_absolute(Unwrap(json.source_directory))
    THEN path_as_given(Unwrap(json.source_directory))
    ELSE to_path(Unwrap(json.source_directory), current_dir(win), win)

\* The list used when ignore_directories is absent at the root.
default_ignore_dirs(win) ==
    << to_path(<<".", "/", "dist">>, current_dir(win), win),
       to_path(<<".", "/", "metrics">>, current_dir(win), win),
       to_path(<<".", "/", "target">>, current_dir(win), win),
       to_path(<<".", "/", ".git">>, current_dir(win), win),
       to_path(<<".", "/", ".github">>, current_dir(win), win) >>

\* The list used when ignore_directories is present and empty at the root.
fallback_ignore_dirs ==
    << <<".", "/", "dist">>, <<".", "/", "target">>, <<".", "/", ".github">>,
       <<".", "/", ".git">>, <<".", "/", "metrics">> >>

root_ignore_dirs(json, win) ==
    IF IsNone(json.ignore_directories) THEN Some(default_ignore_dirs(win))
    ELSE LET ignore_dirs ==
                 resolve_ignore_entries(Unwrap(json.ignore_directories), win)
         IN  IF ignore_dirs # <<>> THEN Some(ignore_dirs)
             ELSE Some(fallback_ignore_dirs)

parse_shared_config(json, win) ==
    LET backend == root_backend(json)
    IN  ShareableConfiguration_new(
            level_metadata(json),
            root_title(json),
            level_tags(json),
            root_language(json),
            root_image(json, backend),
            backend,
            root_output(json, win),
            root_source(json, win),
            root_ignore_dirs(json, win))

\* A configuration file: whether fs::read_to_string finds it, whether
\* json::parse accepts its text, and the parsed document.
File(data) == [exists |-> TRUE, wellformed |-> TRUE, data |-> data]
MissingFile == [exists |-> FALSE, wellformed |-> FALSE, data |-> EmptyObject]
MalformedFile == [exists |-> TRUE, wellformed |-> FALSE, data |-> EmptyObject]

new_top_level(file, win) ==
    IF ~file.exists THEN Panic("There was an error locating your configuration file")
    ELSE IF ~file.wellformed
    THEN Panic("There was an error parsing your configuration file")
    ELSE
    LET parsed_data == file.data
        s_config == parse_shared_config(parsed_data, win)
        pipeline_defs == IF IsNone(parsed_data.pipelines) THEN <<>>
                         ELSE parse_json_vector(parsed_data.pipelines)
        pipelines == parse_pipeline_defs(s_config, parsed_data, pipeline_defs, win)
        action_defs == IF IsNone(parsed_data.actions) THEN <<>>
                       ELSE parse_json_vector(parsed_data.actions)
        actions == parse_action_defs(s_config, action_defs, parsed_data, win)
    IN  IF ~pipelines.ok THEN Panic(pipelines.err)
        ELSE IF ~actions.ok THEN Panic(actions.err)
        ELSE Ok(TopLevelConfiguration_new(s_config, pipeline_defs,
                                          Unwrap(pipelines.val), action_defs,
                                          Unwrap(actions.val)))

(***************************************************************************)
(* Bounds and the documents the model draws.                                *)
(***************************************************************************)
\* The longest pipelines / actions list of a drawn document.
MaxDefs == 2

RECURSIVE SeqsUpTo(_, _)
\* The sequences over S of length at most n.
SeqsUpTo(S, n) ==
    IF n = 0 THEN {<<>>}
    ELSE LET shorter == SeqsUpTo(S, n - 1)
         IN  shorter \cup {Append(s, x) : s \in shorter, x \in S}

Entry(name, value) == [name |-> name, value |-> value]

Script1 == <<"echo", " ", "1">>
Script2 == <<"cat", " ", ".", ".", "/", "test.txt">>

Manual1 == << Entry("s1", Script1) >>
Manual2 == << Entry("s1", Script1), Entry("s2", Script2) >>

\* The shareable keys a level may declare: each draw is a set of keys a
\* document level writes down.
RawChoices ==
    { EmptyObject,
      [EmptyObject EXCEPT !.backend = Some("Docker"), !.image = Some("rust:1.65")],
      [EmptyObject EXCEPT !.backend = Some("bash"), !.image = Some("node:18")],
      [EmptyObject EXCEPT !.image = Some("python:3")],
      [EmptyObject EXCEPT !.backend = Some("podman"), !.image = Some("alpine:3")],
      [EmptyObject EXCEPT !.backend = Some("docker")],
      [EmptyObject EXCEPT !.language = Some("Rust"),
                          !.output_directory = Some(<<"out">>),
                          !.source_directory = Some(<<".", ".", "/", "x">>)],
      [EmptyObject EXCEPT !.language = Some("Go"),
                          !.output_directory = Some(<<"/", "abs", "/", "out">>),
                          !.source_directory = Some(<<"/", "abs", "/", "src">>)],
      [EmptyObject EXCEPT !.ignore_directories =
                              Some(<< <<"a">>, <<"/", "abs", "/", "b">> >>)],
      [EmptyObject EXCEPT !.ignore_directories = Some(<<>>)],
      [EmptyObject EXCEPT !.output_directory = Some(<<"C", ":", "/", "out">>),
                          !.source_directory = Some(<<"C", ":", "/", "src">>),
                          !.ignore_directories = Some(<< <<"C", ":", "/", "i">> >>)],
      [EmptyObject EXCEPT !.title = Some("T"),
                          !.metadata = Some([owner |-> "me"]),
                          !.tags = Some([tier |-> "ci"])],
      [EmptyObject EXCEPT !.metadata = Some([team |-> "x"])] }

\* Family A: root -> pipeline p1 -> action a2, and root -> action a1; every
\* level draws the keys it declares.
InheritanceDocs ==
    { [root EXCEPT
          !.actions = Some(<<"a1">>),
          !.pipelines = Some(<<"p1">>),
          !.kids = [n \in {"a1", "p1"} |->
                      IF n = "a1"
                      THEN [act EXCEPT !.manual = Some(Manual1)]
                      ELSE [pipe EXCEPT
                               !.actions = Some(<<"a2">>),
                               !.kids = [m \in {"a2"} |->
                                           [act EXCEPT !.manual = Some(Manual2)]]]]]
      : root \in RawChoices, pipe \in RawChoices, act \in RawChoices }

\* Family B: the lists of names vary; names may repeat, name a sub-document
\* that does not exist ("zz") or an action whose manual is empty ("e1").
ActionObject(manual) == [EmptyObject EXCEPT !.manual = Some(manual)]

PipelineObject(language, action_defs, kids) ==
    [EmptyObject EXCEPT !.language = Some(language),
                        !.actions = Some(action_defs),
                        !.kids = kids]

StructureKids ==
    [n \in {"a1", "a2", "e1", "p1", "p2", "pe"} |->
        CASE n = "a1" -> ActionObject(Manual1)
          [] n = "a2" -> ActionObject(Manual2)
          [] n = "e1" -> ActionObject(<<>>)
          [] n = "p1" -> PipelineObject("Rust", <<"b1", "b2">>,
                             [m \in {"b1", "b2"} |->
                                 IF m = "b1" THEN ActionObject(Manual1)
                                 ELSE ActionObject(Manual2)])
          [] n = "p2" -> PipelineObject("Go", <<"c1">>,
                             [m \in {"c1"} |-> ActionObject(Manual1)])
          [] n = "pe" -> PipelineObject("Zig", <<"c1", "e1">>,
                             [m \in {"c1", "e1"} |->
                                 IF m = "c1" THEN ActionObject(Manual1)
                                 ELSE [EmptyObject EXCEPT !.retries = Some(JNum(1))]])]

OptionalLists(S) == {None} \cup {Some(l) : l \in SeqsUpTo(S, MaxDefs)}

StructureDocs ==
    { [EmptyObject EXCEPT !.actions = acts, !.pipelines = pipes,
                          !.kids = StructureKids]
      : acts \in OptionalLists({"a1", "a2", "e1", "zz"}),
        pipes \in OptionalLists({"p1", "p2", "pe", "zz"}) }

BuildFiles ==
    {File(d) : d \in InheritanceDocs \cup StructureDocs}
        \cup {MissingFile, MalformedFile}

(***************************************************************************)
(* The executor (utils/executor.rs): pure parts.                            *)
(***************************************************************************)
\* An executor that stops after the first step of an action allowed to fail.
ExecInfo_new_allowed_failure(action) ==
    [backend         |-> get_backend(action.shared_config),
     image           |-> get_image(action.shared_config),
     title           |-> get_title(action.shared_config),
     tags            |-> get_tags(action.shared_config),
     metadata        |-> get_metadata(action.shared_config),
     output          |-> get_output(action.shared_config),
     source          |-> get_source(action.shared_config),
     conditions      |-> action.action_config.conditions,
     manual          |-> IF action.action_config.allowed_failure
                         THEN SubSeq(action.action_config.manual, 1, 1)
                         ELSE action.action_config.manual,
     retries         |-> action.action_config.retries,
     allowed_failure |-> action.action_config.allowed_failure,
     ignore_dirs     |-> get_ignore_dirs(action.shared_config)]

\* ExecInfo::new
ExecInfo_new(action) ==
    [backend         |-> get_backend(action.shared_config),
     image           |-> get_image(action.shared_config),
     title           |-> get_title(action.shared_config),
     tags            |-> get_tags(action.shared_config),
     metadata        |-> get_metadata(action.shared_config),
     output          |-> get_output(action.shared_config),
     source          |-> get_source(action.shared_config),
     conditions      |-> action.action_config.conditions,
     manual          |-> action.action_config.manual,
     retries         |-> action.action_config.retries,
     allowed_failure |-> action.action_config.allowed_failure,
     ignore_dirs     |-> get_ignore_dirs(action.shared_config)]

\* A dispatch that treats every unknown backend as a batch script.
backend_arm_lenient(backend) ==
    CASE to_lowercase(backend) = "bash"   -> "bash"
      [] to_lowercase(backend) = "docker" -> "docker"
      [] OTHER                            -> "batch"

\* A dispatch that knows "batch" and not "bat".
backend_arm_no_bat(backend) ==
    CASE to_lowercase(backend) = "bash"   -> "bash"
      [] to_lowercase(backend) = "batch"  -> "batch"
      [] to_lowercase(backend) = "docker" -> "docker"
      [] OTHER                            -> "unsupported"

\* The arm exec_action's match takes: the handler, or "unsupported".
backend_arm(backend) ==
    CASE to_lowercase(backend) = "bash"   -> "bash"
      [] to_lowercase(backend) = "batch"  -> "batch"
      [] to_lowercase(backend) = "bat"    -> "batch"
      [] to_lowercase(backend) = "docker" -> "docker"
      [] OTHER                            -> "unsupported"

\* A cleaner that resolves only the tokens that hold "../".
clean_script_pathing_parent_only(script, win) ==
    [i \in 1..Len(Split(script, " ")) |->
        IF Contains(Split(script, " ")[i], <<".", ".", "/">>)
        THEN to_path(Split(script, " ")[i], current_dir(win), win)
        ELSE Split(script, " ")[i]]

\* clean_script_pathing: the script split at spaces; a token holding "../" or
\* "./" is put under the working directory.
clean_script_pathing(script, win) ==
    LET items == Split(script, " ")
    IN  [i \in 1..Len(items) |->
            IF \/ Contains(items[i], <<".", ".", "/">>)
               \/ Contains(items[i], <<".", "/">>)
            THEN to_path(items[i], current_dir(win), win)
            ELSE items[i]]

RunningLine(step) == <<"Running ", step.name>>

\* A script_setup that logs no "Running" line.
script_setup_silent(outputs, step, win) ==
    [outputs |-> outputs, script |-> clean_script_pathing(step.script, win)]

\* script_setup: the "Running <name>" line is pushed, the cleaned tokens are
\* returned.
script_setup(outputs, step, win) ==
    [outputs |-> Append(outputs, RunningLine(step)),
     script  |-> clean_script_pathing(step.script, win)]

\* The argument string command_setup_unix hands to sh -c.
unix_arg_string(args) ==
    trim(Concat([i \in 1..Len(args) |-> args[i] \o <<" ">>]))

\* The argument list command_setup_windows hands to cmd.
windows_args(args) == << <<"/C">> >> \o args

NoOutputSentinel ==
    <<"No standard output detected. Check to see if it was piped to another file.">>

\* A captured byte stream is text, or holds a byte that is no UTF-8.
InvalidByte == "\\xFF"
from_utf8(bytes) ==
    IF \E i \in 1..Len(bytes) : bytes[i] = InvalidByte
    THEN Panic("Could not parse command output as a String.")
    ELSE Ok(bytes)

\* A collector that prefers stderr to stdout.
collect_piped_output_stderr_first(setup, output, outputs) ==
    IF ~from_utf8(output.stdout).ok THEN Panic(from_utf8(output.stdout).err)
    ELSE IF ~from_utf8(output.stderr).ok THEN Panic(from_utf8(output.stderr).err)
    ELSE Ok(Append(outputs,
               IF output.stderr # <<>> THEN trim_end(output.stderr)
               ELSE IF output.stdout # <<>> THEN trim_end(output.stdout)
               ELSE NoOutputSentinel))

\* A collector that takes a failure status for a failure to run.
collect_piped_output_strict(setup, output, outputs) ==
    IF output.status # 0 THEN Panic("Failed to execute")
    ELSE IF ~from_utf8(output.stdout).ok THEN Panic(from_utf8(output.stdout).err)
    ELSE IF ~from_utf8(output.stderr).ok THEN Panic(from_utf8(output.stderr).err)
    ELSE Ok(Append(outputs,
               IF output.stdout = <<>>
               THEN IF output.stderr = <<>> THEN NoOutputSentinel
                    ELSE trim_end(output.stderr)
               ELSE trim_end(output.stdout)))

\* collect_piped_output: both streams are decoded, then one entry is pushed.
collect_piped_output(setup, output, outputs) ==
    IF ~from_utf8(output.stdout).ok THEN Panic(from_utf8(output.stdout).err)
    ELSE IF ~from_utf8(output.stderr).ok THEN Panic(from_utf8(output.stderr).err)
    ELSE
    LET stdout == Unwrap(from_utf8(output.stdout).val)
        stderr == Unwrap(from_utf8(output.stderr).val)
    IN  Ok(Append(outputs,
               IF stdout = <<>>
               THEN IF stderr = <<>> THEN NoOutputSentinel
                    ELSE trim_end(stderr)
               ELSE trim_end(stdout)))

CRLF == "\r\n"
Continuation == <<" ", "&&", " ", "\\", CRLF, "    ">>
DockerfileHead(image) ==
    <<"FROM ", image, CRLF, "WORKDIR /cider/app", CRLF, "COPY . ./", CRLF, "RUN ">>

\* The loop of generate_dockerfile: a step that differs (as a value) from the
\* manual's last step is followed by the continuation.
dockerfile_run_part(manual) ==
    Concat([i \in 1..Len(manual) |->
               IF manual[i] # manual[Len(manual)]
               THEN manual[i].script \o Continuation
               ELSE manual[i].script])

\* The text generate_dockerfile writes.
dockerfile_text(info) ==
    DockerfileHead(Unwrap(info.image)) \o dockerfile_run_part(info.manual)

\* str::rsplit_once(pat): the text after the last occurrence of pat, if any.
rsplit_once_after(s, pat) ==
    IF ~Contains(s, pat) THEN None
    ELSE LET k == CHOOSE i \in 1..(Len(s) - Len(pat) + 1) :
                      /\ SubSeq(s, i, i + Len(pat) - 1) = pat
                      /\ \A j \in (i + 1)..(Len(s) - Len(pat) + 1) :
                             SubSeq(s, j, j + Len(pat) - 1) # pat
         IN  Some(SubSeq(s, k + Len(pat), Len(s)))

\* The marker generate_dockerignore splits at.
ignore_marker(win) == IF win THEN <<".", "\\">> ELSE <<".", "/">>

\* The text generate_dockerignore writes, or the panic of one of its unwraps.
dockerignore_text(info, win) ==
    IF IsNone(info.ignore_dirs)
    THEN Panic("called Option::unwrap() on a None value")
    ELSE
    LET dirs == Unwrap(info.ignore_dirs)
        tails == [i \in 1..Len(dirs) |-> rsplit_once_after(dirs[i], ignore_marker(win))]
    IN  IF \E i \in 1..Len(dirs) : IsNone(tails[i])
        THEN Panic("called Option::unwrap() on a None value")
        ELSE Ok(Concat([i \in 1..Len(dirs) |-> Unwrap(tails[i]) \o <<CRLF>>]))

\* image_setup: an unset image becomes alpine:latest and one line is logged.
image_setup(setup, outputs) ==
    IF IsNone(setup.image)
    THEN [setup   |-> [setup EXCEPT !.image = Some("alpine:latest")],
          outputs |-> Append(outputs,
              <<"There was no docker image found to build off of. Using Alpine Linux by default.">>)]
    ELSE [setup |-> setup, outputs |-> outputs]

BatchSkippedLine ==
    <<"A batch script was unable to be processed on Linux and was taken care of safely.">>

RECURSIVE windows_chain(_, _, _, _)
\* The loop of run_bash_scripts / run_batch_script on Windows, from step k:
\* the Running line and the tokens of every step, and an ampersand pair
\* after a step whose script text differs from that of the last step.
windows_chain(manual, k, acc, win) ==
    IF k > Len(manual) THEN acc
    ELSE LET s == script_setup(acc.outputs, manual[k], win)
             sep == IF manual[k].script # manual[Len(manual)].script
                    THEN << <<"&&">> >> ELSE <<>>
         IN  windows_chain(manual, k + 1,
                 [outputs |-> s.outputs,
                  all_steps |-> acc.all_steps \o s.script \o sep], win)

(***************************************************************************)
(* The documents main is run on, and what a subprocess may do.              *)
(***************************************************************************)
DockerPipeline(action_defs, kids) ==
    [EmptyObject EXCEPT !.backend = Some("Docker"), !.image = Some("rust:1.65"),
                        !.actions = Some(action_defs), !.kids = kids]

MainKids ==
    [n \in {"a1", "a2", "e1", "x1", "w1", "d1", "d2", "p1", "pe", "pm", "r1", "pr", "w2", "q1"} |->
        CASE n = "a1" -> ActionObject(Manual2)
          [] n = "r1" -> [ActionObject(Manual2) EXCEPT
                             !.retries = Some(JNum(3)),
                             !.allowed_failure = Some(JBool(TRUE)),
                             !.conditions = Some(<< Entry("branch", <<"main">>) >>)]
          [] n = "pr" -> [DockerPipeline(<<"b1">>,
                              [m \in {"b1"} |->
                                  [ActionObject(Manual1) EXCEPT
                                      !.retries = Some(JNum(2)),
                                      !.allowed_failure = Some(JBool(TRUE))]])
                            EXCEPT !.requires = Some(<<"p1">>),
                                   !.conditions = Some(<< Entry("branch", <<"main">>) >>)]
          [] n = "a2" -> ActionObject(Manual1)
          [] n = "e1" -> ActionObject(<<>>)
          [] n = "x1" -> [ActionObject(Manual1) EXCEPT !.backend = Some("podman")]
          [] n = "w1" -> [ActionObject(Manual2) EXCEPT !.backend = Some("Batch")]
          [] n = "w2" -> [ActionObject(Manual1) EXCEPT !.backend = Some("BAT")]
          [] n = "q1" -> ActionObject(<< Entry("s1", Script1), Entry("s2", Script2),
                                         Entry("s3", Script1) >>)
          [] n = "d1" -> [ActionObject(Manual2) EXCEPT !.backend = Some("docker")]
          [] n = "d2" -> [ActionObject(Manual1) EXCEPT
                             !.backend = Some("docker"),
                             !.ignore_directories = Some(<< <<"a">> >>)]
          [] n = "p1" -> DockerPipeline(<<"b1">>,
                             [m \in {"b1"} |-> ActionObject(Manual1)])
          [] n = "pe" -> PipelineObject("Rust", <<"b1", "e1">>,
                             [m \in {"b1", "e1"} |->
                                 IF m = "b1" THEN ActionObject(Manual1)
                                 ELSE ActionObject(<<>>)])
          [] n = "pm" -> PipelineObject("Rust", <<"b1", "zz">>,
                             [m \in {"b1"} |-> ActionObject(Manual1)])]

MainDoc(action_defs, pipeline_defs) ==
    [EmptyObject EXCEPT !.actions = Some(action_defs),
                        !.pipelines = Some(pipeline_defs),
                        !.kids = MainKids]

MainFiles ==
    { File(MainDoc(<<"a1">>, <<"p1">>)),
      File(MainDoc(<<"r1">>, <<"pr">>)),
      File(MainDoc(<<"a2", "x1", "a1">>, <<>>)),
      File(MainDoc(<<"a2", "e1">>, <<>>)),
      File(MainDoc(<<"a2">>, <<"pe">>)),
      File(MainDoc(<<"a2">>, <<"pm">>)),
      File(MainDoc(<<"a2", "zz">>, <<>>)),
      File(MainDoc(<<"w1", "a2">>, <<>>)),
      File(MainDoc(<<"w2", "a2">>, <<>>)),
      File(MainDoc(<<"q1">>, <<>>)),
      File(MainDoc(<<"d1", "a2">>, <<>>)),
      File(MainDoc(<<"d2">>, <<>>)),
      File(MainDoc(<<>>, <<"p1", "zz">>)),
      MissingFile, MalformedFile }

\* What std::process::Command::output() may give: the process could not be
\* started, or it ran, exited with a status and its two streams were captured.
Exited(status, stdout, stderr) ==
    [started |-> TRUE, status |-> status, stdout |-> stdout, stderr |-> stderr]
Captured(stdout, stderr) == Exited(0, stdout, stderr)
NotStarted == [started |-> FALSE, status |-> 0, stdout |-> <<>>, stderr |-> <<>>]

Outcomes ==
    { NotStarted,
      Captured(<<"hello", "\n">>, <<>>),
      Captured(<<>>, <<>>),
      Captured(<<>>, <<"oops", "\n">>),
      Captured(<<"hello", "\n">>, <<"warn", "\n">>),
      Exited(1, <<"hello", "\n">>, <<>>),
      Exited(1, <<>>, <<"oops", "\n">>),
      Captured(<<InvalidByte>>, <<>>) }

(***************************************************************************)
(* State.                                                                   *)
(***************************************************************************)
VARIABLES
    windows,     \* cfg!(windows) of the build
    file,        \* the configuration file main is given
    pc,          \* where main (and the executor under it) stands
    conf,        \* Option: the TopLevelConfiguration new_top_level returned
    action_vec,  \* the list handed to exec_actions
    idx,         \* exec_actions: the index of the action being executed
    step,        \* run_bash_scripts: the index of the next step
    setup,       \* Option: the ExecInfo of the action being executed
    outputs,     \* the log of the action being executed
    all_output,  \* exec_actions: the logs pushed so far
    result,      \* Option: what exec_actions returned
    spawned,     \* every subprocess the executor asked for, in order
    files,       \* the files of the names the executor writes: <<directory, name>> -> text
    panic,       \* the message of the panic that ended the process, or ""
    input,       \* Option: the argument of a function applied on its own
    now,                 \* watch mode: the clock, in ticks of one second
    tree,                \* watch mode: the source directory, path -> time of modification
    elapsed_times,       \* watch mode: main's map, file name -> elapsed time
    recent_file_changed  \* watch mode: main's least time of the poll before

watch_vars == <<now, tree, elapsed_times, recent_file_changed>>

vars == <<windows, file, pc, conf, action_vec, idx, step, setup, outputs,
          all_output, result, spawned, files, panic, input, watch_vars>>

NoFiles == [k \in {} |-> <<>>]

\* Outside watch mode the clock, the directory and the two locals of the
\* watch loop are not in use.
NoWatch ==
    /\ now = 0
    /\ tree = NoFiles
    /\ elapsed_times = NoFiles
    /\ recent_file_changed = 0

InitWith(fileSet) ==
    /\ windows \in BOOLEAN
    /\ NoWatch
    /\ file \in fileSet
    /\ pc = "start"
    /\ conf = None
    /\ action_vec = <<>>
    /\ idx = 0
    /\ step = 0
    /\ setup = None
    /\ outputs = <<>>
    /\ all_output = <<>>
    /\ result = None
    /\ spawned = <<>>
    /\ files = NoFiles
    /\ panic = ""
    /\ input = None

\* The files of the same names that may lie in the default source directory
\* before the run: none, the user's own Dockerfile, the user's own
\* .dockerignore.
OwnDockerfile == <<"FROM scratch">>
OwnDockerignore == <<"node_modules">>
ExistingFiles(win) ==
    { NoFiles,
      (<<root_source(EmptyObject, win), "Dockerfile">> :> OwnDockerfile),
      (<<root_source(EmptyObject, win), ".dockerignore">> :> OwnDockerignore) }

Init ==
    /\ windows \in BOOLEAN
    /\ NoWatch
    /\ file \in MainFiles
    /\ pc = "start"
    /\ conf = None
    /\ action_vec = <<>>
    /\ idx = 0
    /\ step = 0
    /\ setup = None
    /\ outputs = <<>>
    /\ all_output = <<>>
    /\ result = None
    /\ spawned = <<>>
    /\ files \in ExistingFiles(windows)
    /\ panic = ""
    /\ input = None

Abort(msg) ==
    /\ pc' = "panicked"
    /\ panic' = msg

(***************************************************************************)
(* main (main.rs), without --watch.                                         *)
(***************************************************************************)
\* main.rs:56  let conf = json_parser::new_top_level(&filename);
NewTopLevel ==
    /\ pc = "start"
    /\ LET r == new_top_level(file, windows)
       IN  IF r.ok
           THEN /\ conf' = r.val
                /\ pc' = "configured"
                /\ panic' = panic
           ELSE /\ conf' = conf
                /\ Abort(r.err)
    /\ UNCHANGED <<watch_vars, windows, file, action_vec, idx, step, setup, outputs,
                   all_output, result, spawned, files, input>>

\* main.rs:57-60  File::create(...)?  on the output file: main returns the
\* error when the file cannot be created.
CreateOutputFile ==
    /\ pc = "configured"
    /\ \E created \in BOOLEAN :
           pc' = IF created THEN "run" ELSE "io_error"
    /\ UNCHANGED <<watch_vars, windows, file, conf, action_vec, idx, step, setup, outputs,
                   all_output, result, spawned, files, panic, input>>

\* main.rs:86  exec_actions(&conf.get_all_actions()): the argument.
GetAllActions ==
    /\ pc = "run"
    /\ action_vec' = get_all_actions(Unwrap(conf))
    /\ idx' = 1
    /\ all_output' = <<>>
    /\ pc' = "exec_actions"
    /\ UNCHANGED <<watch_vars, windows, file, conf, step, setup, outputs, result, spawned,
                   files, panic, input>>

(***************************************************************************)
(* exec_actions and the backends (utils/executor.rs).                       *)
(***************************************************************************)
\* A subprocess that is left in the working directory of the program.
Process_inherited_cwd(program, args, cwd, stdio, outcome) ==
    [program |-> program, args |-> args, cwd |-> None, stdio |-> stdio,
     action |-> idx, started |-> outcome.started, exited |-> outcome.started,
     status |-> outcome.status,
     stdout |-> outcome.stdout, stderr |-> outcome.stderr]

Process(program, args, cwd, stdio, outcome) ==
    [program |-> program, args |-> args, cwd |-> cwd, stdio |-> stdio,
     action |-> idx, started |-> outcome.started, exited |-> outcome.started,
     status |-> outcome.status,
     stdout |-> outcome.stdout, stderr |-> outcome.stderr]

\* exec_actions: the loop is over, all_output is returned; main writes it out.
ExecActionsReturn ==
    /\ pc = "exec_actions"
    /\ idx > Len(action_vec)
    /\ result' = Some(all_output)
    /\ pc' = "done"
    /\ UNCHANGED <<watch_vars, windows, file, conf, action_vec, idx, step, setup, outputs,
                   all_output, spawned, files, panic, input>>

\* exec_action: ExecInfo::new and the match on the lower-cased backend.
ExecAction ==
    /\ pc = "exec_actions"
    /\ idx <= Len(action_vec)
    /\ LET exec_info == ExecInfo_new(action_vec[idx])
           arm == backend_arm(exec_info.backend)
       IN  /\ setup' = Some(exec_info)
           /\ outputs' = <<>>
           /\ step' = 1
           /\ IF arm = "unsupported"
              THEN Abort("Specified backend not supported")
              ELSE /\ panic' = panic
                   /\ pc' = CASE arm = "bash" ->
                                   IF windows THEN "cmd_chain"
                                   ELSE IF exec_info.manual = <<>> THEN "action_return"
                                   ELSE "sh_step"
                              [] arm = "batch" ->
                                   IF windows THEN "cmd_chain" ELSE "batch_skip"
                              [] arm = "docker" -> "docker_setup"
    /\ UNCHANGED <<watch_vars, windows, file, conf, action_vec, idx, all_output, result,
                   spawned, files, input>>

\* run_bash_scripts, not Windows: one pass of the loop over the manual.
RunBashStep ==
    /\ pc = "sh_step"
    /\ \E outcome \in Outcomes :
         LET info == Unwrap(setup)
             s == script_setup(outputs, info.manual[step], windows)
             collected == collect_piped_output(info, outcome, s.outputs)
         IN  /\ spawned' = Append(spawned,
                    Process("sh", << <<"-c">>, unix_arg_string(s.script) >>,
                            Some(info.source), "piped", outcome))
             /\ IF ~outcome.started
                THEN /\ Abort("Failed to execute")
                     /\ UNCHANGED <<watch_vars, outputs, step>>
                ELSE IF ~collected.ok
                THEN /\ Abort(collected.err)
                     /\ UNCHANGED <<watch_vars, outputs, step>>
                ELSE /\ outputs' = Unwrap(collected.val)
                     /\ step' = step + 1
                     /\ pc' = IF step = Len(info.manual) THEN "action_return"
                              ELSE "sh_step"
                     /\ panic' = panic
    /\ UNCHANGED <<watch_vars, windows, file, conf, action_vec, idx, setup, all_output,
                   result, files, input>>

\* run_bash_scripts and run_batch_script on Windows: every step is put into
\* one cmd /C command, which is run once.
RunCmdChain ==
    /\ pc = "cmd_chain"
    /\ \E outcome \in Outcomes :
         LET info == Unwrap(setup)
             chain == windows_chain(info.manual, 1,
                          [outputs |-> outputs, all_steps |-> <<>>], windows)
             collected == collect_piped_output(info, outcome, chain.outputs)
         IN  /\ spawned' = Append(spawned,
                    Process("cmd", windows_args(chain.all_steps),
                            Some(info.source), "piped", outcome))
             /\ IF ~outcome.started
                THEN /\ Abort("Failed to execute")
                     /\ UNCHANGED outputs
                ELSE IF ~collected.ok
                THEN /\ Abort(collected.err)
                     /\ UNCHANGED outputs
                ELSE /\ outputs' = Unwrap(collected.val)
                     /\ pc' = "action_return"
                     /\ panic' = panic
    /\ UNCHANGED <<watch_vars, windows, file, conf, action_vec, idx, step, setup,
                   all_output, result, files, input>>

\* run_batch_script, not Windows: one line is logged, nothing is run.
SkipBatch ==
    /\ pc = "batch_skip"
    /\ outputs' = Append(outputs, BatchSkippedLine)
    /\ pc' = "action_return"
    /\ UNCHANGED <<watch_vars, windows, file, conf, action_vec, idx, step, setup,
                   all_output, result, spawned, files, panic, input>>

\* run_with_docker up to the first subprocess: image_setup,
\* generate_dockerignore, generate_dockerfile and, on Windows, the csv writer.
\* File::create (and Writer::from_path) may fail; each failure panics.
DockerSetup ==
    /\ pc = "docker_setup"
    /\ \E ignore_created \in BOOLEAN, dockerfile_created \in BOOLEAN,
          csv_created \in BOOLEAN :
         LET img == image_setup(Unwrap(setup), outputs)
             info == img.setup
             ignore == dockerignore_text(info, windows)
             ignore_key == <<info.source, ".dockerignore">>
             dockerfile_key == <<info.source, "Dockerfile">>
             files1 == (ignore_key :> <<>>) @@ files
             files2 == (ignore_key :> Unwrap(ignore.val)) @@ files
             files3 == (dockerfile_key :> <<>>) @@ files2
             files4 == (dockerfile_key :> dockerfile_text(info)) @@ files2
         IN  /\ setup' = Some(info)
             /\ outputs' = img.outputs
             /\ IF ~ignore_created
                THEN /\ Abort("There was an issue regarding your dockerignore.")
                     /\ files' = files
                ELSE IF ~ignore.ok
                THEN /\ Abort(ignore.err)
                     /\ files' = files1
                ELSE IF ~dockerfile_created
                THEN /\ Abort("There was an issue regarding your dockerfile.")
                     /\ files' = files2
                ELSE IF windows /\ ~csv_created
                THEN /\ Abort("csv writer")
                     /\ files' = files4
                ELSE /\ files' = files4
                     /\ pc' = "docker_pull"
                     /\ panic' = panic
    /\ UNCHANGED <<watch_vars, windows, file, conf, action_vec, idx, step, all_output,
                   result, spawned, input>>

DockerCommand(words) ==
    IF windows THEN << <<"/C">> >> \o [i \in 1..Len(words) |-> <<words[i]>>]
    ELSE << <<"-c">>, Concat([i \in 1..Len(words) |->
                                 IF i = 1 THEN <<words[i]>> ELSE <<" ", words[i]>>]) >>

\* Where run_with_docker stands between the spawn of a stage and the return
\* of its wait, and where it goes on from there.
WaitOf(at) ==
    CASE at = "docker_pull"  -> "docker_pull_wait"
      [] at = "docker_clean" -> "docker_clean_wait"
      [] at = "docker_build" -> "docker_build_wait"

AfterWait(at) ==
    CASE at = "docker_pull_wait"  -> "docker_clean"
      [] at = "docker_clean_wait" -> "docker_build"
      [] at = "docker_build_wait" -> "action_return"

\* A subprocess that was spawned and is not waited for yet.
Spawned(program, args, cwd, started) ==
    [program |-> program, args |-> args, cwd |-> cwd, stdio |-> "inherit",
     action |-> idx, started |-> started, exited |-> FALSE, status |-> 0,
     stdout |-> <<>>, stderr |-> <<>>]

\* A run_with_docker that spawns a stage and goes on without waiting for it.
DockerStage_no_wait(at, words, cwd) ==
    /\ pc = at
    /\ \E started \in BOOLEAN :
         /\ spawned' = Append(spawned,
                Spawned(IF windows THEN "cmd" ELSE "sh", DockerCommand(words),
                        cwd, started))
         /\ IF started
            THEN /\ pc' = AfterWait(WaitOf(at))
                 /\ panic' = panic
            ELSE Abort("There was an error building your docker environment.")
    /\ UNCHANGED <<watch_vars, windows, file, conf, action_vec, idx, step, setup, outputs,
                   all_output, result, files, input>>

\* One stage of run_with_docker up to its wait: spawn with inherited stdio;
\* a command that cannot be spawned panics.
DockerStage(at, words, cwd) ==
    /\ pc = at
    /\ \E started \in BOOLEAN :
         /\ spawned' = Append(spawned,
                Spawned(IF windows THEN "cmd" ELSE "sh", DockerCommand(words),
                        cwd, started))
         /\ IF started
            THEN /\ pc' = WaitOf(at)
                 /\ panic' = panic
            ELSE Abort("There was an error building your docker environment.")
    /\ UNCHANGED <<watch_vars, windows, file, conf, action_vec, idx, step, setup, outputs,
                   all_output, result, files, input>>

DockerPull ==
    DockerStage("docker_pull",
                <<"docker", "pull", Unwrap(Unwrap(setup).image)>>,
                Some(Unwrap(setup).source))

DockerClean ==
    DockerStage("docker_clean",
                <<"docker", "image", "rm", "-f", "cider-image">>,
                None)

DockerBuild ==
    DockerStage("docker_build",
                IF windows
                THEN <<"docker", "build", "-t", "cider-image", ".", "--no-cache">>
                ELSE <<"docker", "build", "-t", "cider-image", ".">>,
                Some(Unwrap(setup).source))

\* process.wait(): the stage's subprocess has exited, with any status, and
\* run_with_docker goes on; a wait that returns an error panics.
DockerWait ==
    /\ pc \in {"docker_pull_wait", "docker_clean_wait", "docker_build_wait"}
    /\ \E waited \in BOOLEAN, status \in {0, 1} :
         IF waited
         THEN /\ spawned' = [spawned EXCEPT ![Len(spawned)] =
                                [@ EXCEPT !.exited = TRUE, !.status = status]]
              /\ pc' = AfterWait(pc)
              /\ panic' = panic
         ELSE /\ spawned' = spawned
              /\ Abort("wait")
    /\ UNCHANGED <<watch_vars, windows, file, conf, action_vec, idx, step, setup, outputs,
                   all_output, result, files, input>>

\* An exec_actions that puts each log in front of the earlier ones.
ExecActionReturn_prepend ==
    /\ pc = "action_return"
    /\ all_output' = <<outputs>> \o all_output
    /\ idx' = idx + 1
    /\ setup' = None
    /\ pc' = "exec_actions"
    /\ UNCHANGED <<watch_vars, windows, file, conf, action_vec, step, outputs, result,
                   spawned, files, panic, input>>

\* exec_actions: all_output.push(exec_action(action)), then the next action.
ExecActionReturn ==
    /\ pc = "action_return"
    /\ all_output' = Append(all_output, outputs)
    /\ idx' = idx + 1
    /\ setup' = None
    /\ pc' = "exec_actions"
    /\ UNCHANGED <<watch_vars, windows, file, conf, action_vec, step, outputs, result,
                   spawned, files, panic, input>>

Next ==
    \/ NewTopLevel
    \/ CreateOutputFile
    \/ GetAllActions
    \/ ExecActionsReturn
    \/ ExecAction
    \/ RunBashStep
    \/ RunCmdChain
    \/ SkipBatch
    \/ DockerSetup
    \/ DockerPull
    \/ DockerClean
    \/ DockerBuild
    \/ DockerWait
    \/ ExecActionReturn

Spec == Init /\ [][Next]_vars

\* The builder on its own, over the larger set of documents.
InitBuild == InitWith(BuildFiles)
NextBuild == NewTopLevel \/ CreateOutputFile \/ GetAllActions
SpecBuild == InitBuild /\ [][NextBuild]_vars

(***************************************************************************)
(* Properties of the builder (checked under SpecBuild).                     *)
(***************************************************************************)
InheritedFields == {"language", "backend", "output", "source", "ignore_dirs"}

RawKey(f) ==
    CASE f = "language"    -> "language"
      [] f = "backend"     -> "backend"
      [] f = "output"      -> "output_directory"
      [] f = "source"      -> "source_directory"
      [] f = "ignore_dirs" -> "ignore_directories"

Declares(json, f) == IsSome(json[RawKey(f)])

\* A level's own raw value, as it is stored: paths are put under the working
\* directory (source and ignore entries only when they do not look absolute);
\* a declared empty ignore list is stored as None below the root and as the
\* fallback list at the root.
OwnValue(json, f, atRoot, win) ==
    CASE f = "language" -> Unwrap(json.language)
      [] f = "backend"  -> Unwrap(json.backend)
      [] f = "output"   ->
           PushComponents(current_dir(win),
                          Components(Unwrap(json.output_directory)), win)
      [] f = "source"   ->
           IF looks_absolute(Unwrap(json.source_directory))
           THEN Unwrap(json.source_directory)
           ELSE PushComponents(current_dir(win),
                               Components(Unwrap(json.source_directory)), win)
      [] f = "ignore_dirs" ->
           LET raw == Unwrap(json.ignore_directories)
               stored == [i \in 1..Len(raw) |->
                             IF looks_absolute(raw[i]) THEN raw[i]
                             ELSE PushComponents(current_dir(win),
                                                 Components(raw[i]), win)]
           IN  IF stored # <<>> THEN Some(stored)
               ELSE IF atRoot THEN Some(fallback_ignore_dirs) ELSE None

HardDefault(f, win) ==
    LET sep == MAIN_SEPARATOR(win)
        here == current_dir(win) \o <<sep, ".">>
    IN  CASE f = "language" -> "Python"
          [] f = "backend"  -> "bash"
          [] f = "output"   -> here \o <<sep, "dist", sep, "cider">>
          [] f = "source"   -> here
          [] f = "ignore_dirs" ->
               Some(<< here \o <<sep, "dist">>, here \o <<sep, "metrics">>,
                       here \o <<sep, "target">>, here \o <<sep, ".git">>,
                       here \o <<sep, ".github">> >>)

RootExpected(json, f, win) ==
    IF Declares(json, f) THEN OwnValue(json, f, TRUE, win) ELSE HardDefault(f, win)

LevelExpected(json, parent, f, win) ==
    IF Declares(json, f) THEN OwnValue(json, f, FALSE, win) ELSE parent[f]

AllSharedConfigs(c) ==
    {c.s_config}
      \cup {c.actions[i].shared_config : i \in 1..Len(c.actions)}
      \cup {c.pipelines[j].shared_config : j \in 1..Len(c.pipelines)}
      \cup UNION {{c.pipelines[j].pipeline_config.actions[k].shared_config :
                      k \in 1..Len(c.pipelines[j].pipeline_config.actions)} :
                  j \in 1..Len(c.pipelines)}

\* C2: in a configuration new_top_level returned, every ShareableConfiguration
\* whose backend, lower-cased, is not "docker" has no image, whatever images
\* the document declares.
C2_ImageOnlyForDocker ==
    IsSome(conf) =>
        \A s \in AllSharedConfigs(Unwrap(conf)) :
            to_lowercase(s.backend) # "docker" => s.image = None

\* A bash root, a pipeline with an unsupported backend and a bash action under
\* it, each declaring an image in the document: none of them holds one.
C2_Witness ==
    /\ IsSome(conf)
    /\ file.data.backend = Some("bash")
    /\ file.data.image = Some("node:18")
    /\ Len(Unwrap(conf).pipelines) = 1
    /\ LET raw_p == file.data.kids[Unwrap(conf).pipeline_defs[1]]
           p == Unwrap(conf).pipelines[1]
           raw_a == raw_p.kids[p.pipeline_config.action_defs[1]]
       IN  /\ raw_p.backend = Some("podman")
           /\ raw_p.image = Some("alpine:3")
           /\ raw_a.backend = Some("bash")
           /\ raw_a.image = Some("node:18")
           /\ p.shared_config.image = None
           /\ p.pipeline_config.actions[1].shared_config.image = None
    /\ Unwrap(conf).s_config.image = None

RECURSIVE ActionCount(_, _)
\* The number of actions of the first j pipelines.
ActionCount(pipelines, j) ==
    IF j = 0 THEN 0
    ELSE ActionCount(pipelines, j - 1) + Len(pipelines[j].pipeline_config.actions)

\* C4: get_all_actions returns the top-level actions in stored order, then
\* the actions of each pipeline in stored order, pipelines in stored order;
\* its length is the number of top-level actions plus the sum of the
\* pipelines' action counts.
C4_GetAllActionsOrder ==
    pc = "exec_actions" =>
        LET c == Unwrap(conf)
            n == Len(c.actions)
        IN  /\ Len(action_vec) = n + ActionCount(c.pipelines, Len(c.pipelines))
            /\ \A i \in 1..n : action_vec[i] = c.actions[i]
            /\ \A j \in 1..Len(c.pipelines) :
                  \A k \in 1..Len(c.pipelines[j].pipeline_config.actions) :
                      action_vec[n + ActionCount(c.pipelines, j - 1) + k]
                          = c.pipelines[j].pipeline_config.actions[k]

\* Two top-level actions and two pipelines, the first with two actions.
C4_Witness ==
    /\ pc = "exec_actions"
    /\ Len(Unwrap(conf).actions) = 2
    /\ Len(Unwrap(conf).pipelines) = 2
    /\ Len(Unwrap(conf).pipelines[1].pipeline_config.actions) = 2
    /\ Len(Unwrap(conf).pipelines[2].pipeline_config.actions) = 1
    /\ Len(action_vec) = 5
    /\ \A i, j \in 1..5 : i # j => action_vec[i] # action_vec[j]

(***************************************************************************)
(* Properties of a run of main (checked under Spec).                        *)
(***************************************************************************)
\* The document names, in a list the builder reads, an action whose manual
\* has no step: at the top level or inside a named pipeline.
DeclaresEmptyManual(doc) ==
    \/ \E i \in 1..Len(Entries(doc.actions)) :
          LET a == Entries(doc.actions)[i]
          IN  a \in DOMAIN doc.kids /\ Entries(doc.kids[a].manual) = <<>>
    \/ \E j \in 1..Len(Entries(doc.pipelines)) :
          LET p == Entries(doc.pipelines)[j]
          IN  /\ p \in DOMAIN doc.kids
              /\ \E k \in 1..Len(Entries(doc.kids[p].actions)) :
                    LET a == Entries(doc.kids[p].actions)[k]
                    IN  /\ a \in DOMAIN doc.kids[p].kids
                        /\ Entries(doc.kids[p].kids[a].manual) = <<>>

\* C5: when a declared action has a manual of zero steps, new_top_level
\* panics and the pass starts no subprocess; every Action handed to
\* exec_actions has at least one step.
C5_EmptyManualFailsBuild ==
    /\ (pc # "start" /\ file.exists /\ file.wellformed
            /\ DeclaresEmptyManual(file.data))
          => /\ pc = "panicked"
             /\ conf = None
             /\ action_vec = <<>>
             /\ spawned = <<>>
    /\ \A i \in 1..Len(action_vec) :
          Len(action_vec[i].action_config.manual) >= 1

\* The empty manual is that of a pipeline's second action, after a top-level
\* action and a pipeline action that are well formed.
C5_Witness ==
    /\ pc = "panicked"
    /\ panic = "Actions require at least one step in their manual"
    /\ file.data.pipelines = Some(<<"pe">>)
    /\ file.data.actions = Some(<<"a2">>)
    /\ DeclaresEmptyManual(file.data)
    /\ spawned = <<>>

Unsupported(action) ==
    to_lowercase(action.shared_config.backend) \notin {"bash", "batch", "bat", "docker"}

\* C6: when the list given to exec_actions holds an action whose backend is
\* none of bash, batch, bat, docker, exec_actions returns no log (not for
\* the actions before it either), and nothing is started for that action or
\* for a later one.
C6_UnsupportedBackendAborts ==
    (\E i \in 1..Len(action_vec) : Unsupported(action_vec[i])) =>
        LET first == CHOOSE i \in 1..Len(action_vec) :
                         /\ Unsupported(action_vec[i])
                         /\ \A j \in 1..(i - 1) : ~Unsupported(action_vec[j])
        IN  /\ result = None
            /\ pc # "done"
            /\ idx <= first
            /\ \A k \in 1..Len(spawned) : spawned[k].action < first

\* The run aborted at the second action, after the first one ran its step
\* and had its log pushed; a third action was never reached.
C6_Witness ==
    /\ pc = "panicked"
    /\ panic = "Specified backend not supported"
    /\ Len(action_vec) = 3
    /\ idx = 2
    /\ Len(all_output) = 1
    /\ Len(spawned) = 1
    /\ result = None

\* The entry one captured execution contributes to the log.
ClassifiedEntry(stdout, stderr) ==
    IF stdout # <<>> THEN trim_end(stdout)
    ELSE IF stderr # <<>> THEN trim_end(stderr)
    ELSE NoOutputSentinel

\* The captured executions of the action being executed.
PipedOfCurrent ==
    SelectSeq(spawned, LAMBDA p : p.action = idx /\ p.stdio = "piped")

\* The log of a bash action with one execution per step: "Running <name>"
\* and the classified output, step by step.
LogPerStep ==
    LET manual == Unwrap(setup).manual
    IN  /\ Len(outputs) = 2 * Len(manual)
        /\ Len(PipedOfCurrent) = Len(manual)
        /\ \A i \in 1..Len(manual) :
              /\ outputs[2 * i - 1] = <<"Running ", manual[i].name>>
              /\ outputs[2 * i] = ClassifiedEntry(PipedOfCurrent[i].stdout,
                                                  PipedOfCurrent[i].stderr)

\* The log of a bash action run as one chained command: the n "Running"
\* lines, then the classified output of the one execution.
LogChained ==
    LET manual == Unwrap(setup).manual
        n == Len(manual)
    IN  /\ Len(outputs) = n + 1
        /\ Len(PipedOfCurrent) = 1
        /\ \A i \in 1..n : outputs[i] = <<"Running ", manual[i].name>>
        /\ outputs[n + 1] = ClassifiedEntry(PipedOfCurrent[1].stdout,
                                            PipedOfCurrent[1].stderr)

BashActionDone ==
    pc = "action_return" /\ to_lowercase(Unwrap(setup).backend) = "bash"

MaxSetterCalls == 2

SetterBackends == {"bash", "Docker"}
SetterImages == {"rust:1.65", "node:18"}
SetterPaths == {"/w/src", "docker"}

InitSetters ==
    /\ windows \in BOOLEAN
    /\ NoWatch
    /\ file = MissingFile
    /\ pc = "setters"
    /\ \E backend \in SetterBackends, image \in {None} \cup {Some(i) : i \in SetterImages} :
          conf = Some(ShareableConfiguration_new(None, Some("t"), None, "Python",
                          image, backend, "/w/out", "/w", Some(<<>>)))
    /\ action_vec = <<>>
    /\ idx = 0
    /\ step = 0
    /\ setup = None
    /\ outputs = <<>>
    /\ all_output = <<>>
    /\ result = None
    /\ spawned = <<>>
    /\ files = NoFiles
    /\ panic = ""
    /\ input = None

\* One setter call: conf becomes what the setter leaves, the call is counted
\* and remembered.
SetterCall(name, arg, after) ==
    /\ pc = "setters"
    /\ step < MaxSetterCalls
    /\ conf' = Some(after)
    /\ step' = step + 1
    /\ input' = Some([setter |-> name, before_backend |-> Unwrap(conf).backend,
                       before |-> Unwrap(conf), arg |-> arg])
    /\ UNCHANGED <<watch_vars, windows, file, pc, action_vec, idx, setup, outputs,
                   all_output, result, spawned, files, panic>>

SetImage == \E v \in SetterImages : SetterCall("set_image", v, set_image(Unwrap(conf), v))
SetBackend == \E v \in SetterBackends : SetterCall("set_backend", v, set_backend(Unwrap(conf), v))
SetSource == \E v \in SetterPaths : SetterCall("set_source", v, set_source(Unwrap(conf), v))
SetOutput == \E v \in SetterPaths : SetterCall("set_output", v, set_output(Unwrap(conf), v))
SetLanguage == \E v \in {"Rust"} : SetterCall("set_language", v, set_language(Unwrap(conf), v))
SetTitle == \E v \in {"T"} : SetterCall("set_title", v, set_title(Unwrap(conf), v))
SetTags == \E v \in {[tier |-> "ci"]} : SetterCall("set_tags", v, set_tags(Unwrap(conf), v))
SetMetadata ==
    \E v \in {[owner |-> "me"]} : SetterCall("set_metadata", v, set_metadata(Unwrap(conf), v))

NextSetters ==
    \/ SetImage
    \/ SetBackend
    \/ SetSource
    \/ SetOutput
    \/ SetLanguage
    \/ SetTitle
    \/ SetTags
    \/ SetMetadata

SpecSetters == InitSetters /\ [][NextSetters]_vars

\* C3 as stated: after new and any sequence of setter calls, image is Some
\* only if the backend, lower-cased, is "docker"; set_image on a
\* configuration whose backend is not docker leaves image None.
C3_AsStated ==
    pc = "setters" =>
        /\ IsSome(Unwrap(conf).image) => to_lowercase(Unwrap(conf).backend) = "docker"
        /\ (/\ IsSome(input)
            /\ Unwrap(input).setter = "set_image"
            /\ to_lowercase(Unwrap(input).before_backend) # "docker")
              => Unwrap(conf).image = None

(***************************************************************************)
(* collect_piped_output on its own (utils/executor.rs).                     *)
(***************************************************************************)
\* The longest captured stream drawn.
MaxStreamLen == 2

StreamAtoms == {"hello", "\n", " ", InvalidByte}
Streams == SeqsUpTo(StreamAtoms, MaxStreamLen)

\* An action as the public constructors build it.
SampleAction(backend, image, manual) ==
    Action_new(
        ShareableConfiguration_new(None, Some("sample"), None, "Python", image,
                                   backend, <<"/", "w", "/", "dist">>,
                                   <<"/", "w">>, Some(<<>>)),
        ActionConfig_new(None, None, None, manual))

InitCollect ==
    /\ windows \in BOOLEAN
    /\ NoWatch
    /\ file = MissingFile
    /\ pc = "collect"
    /\ conf = None
    /\ action_vec = <<>>
    /\ idx = 1
    /\ step = 1
    /\ setup = Some(ExecInfo_new(SampleAction("bash", None,
                                              <<Step_new("s1", Script1)>>)))
    /\ outputs = << <<"Running ", "s1">> >>
    /\ all_output = <<>>
    /\ result = None
    /\ spawned = <<>>
    /\ files = NoFiles
    /\ panic = ""
    /\ \E out \in Streams, err \in Streams :
          input = Some(Captured(out, err))

\* One call of collect_piped_output on the captured output.
CollectPipedOutput ==
    /\ pc = "collect"
    /\ LET collected == collect_piped_output(Unwrap(setup), Unwrap(input), outputs)
       IN  IF collected.ok
           THEN /\ outputs' = Unwrap(collected.val)
                /\ pc' = "collected"
                /\ panic' = panic
           ELSE /\ Abort(collected.err)
                /\ outputs' = outputs
    /\ UNCHANGED <<watch_vars, windows, file, conf, action_vec, idx, step, setup,
                   all_output, result, spawned, files, input>>

NextCollect == CollectPipedOutput

SpecCollect == InitCollect /\ [][NextCollect]_vars

\* C8 as stated: every call appends exactly one entry: stdout with trailing
\* whitespace trimmed when stdout is not empty, otherwise stderr as captured
\* when it is not empty, otherwise the sentinel.
C8_AsStated ==
    pc # "collect" =>
        LET out == Unwrap(input).stdout
            err == Unwrap(input).stderr
        IN  outputs = << <<"Running ", "s1">>,
                         IF out # <<>> THEN trim_end(out)
                         ELSE IF err # <<>> THEN err
                         ELSE NoOutputSentinel >>

Utf8(bytes) == \A i \in 1..Len(bytes) : bytes[i] # InvalidByte

\* C8: a call on two streams that are valid UTF-8 appends exactly one entry:
\* stdout with trailing whitespace trimmed when stdout is not empty,
\* otherwise stderr with trailing whitespace trimmed when stderr is not
\* empty, otherwise the sentinel; a call on a stream that is not valid UTF-8
\* panics and appends nothing.
C8_CollectedEntry ==
    pc # "collect" =>
        LET out == Unwrap(input).stdout
            err == Unwrap(input).stderr
        IN  IF Utf8(out) /\ Utf8(err)
            THEN /\ pc = "collected"
                 /\ outputs = << <<"Running ", "s1">>,
                                 IF out # <<>> THEN trim_end(out)
                                 ELSE IF err # <<>> THEN trim_end(err)
                                 ELSE NoOutputSentinel >>
            ELSE /\ pc = "panicked"
                 /\ outputs = << <<"Running ", "s1">> >>

\* stdout empty, stderr ending in a newline: the entry is stderr without it.
C8_Witness ==
    /\ pc = "collected"
    /\ Unwrap(input).stdout = <<>>
    /\ Unwrap(input).stderr = <<"hello", "\n">>
    /\ outputs = << <<"Running ", "s1">>, <<"hello">> >>

(***************************************************************************)
(* generate_dockerfile on its own (utils/executor.rs).  The manuals are     *)
(* those Step::new and ActionConfig::new can build, equal steps included.    *)
(***************************************************************************)
\* The longest manual drawn.
MaxSteps == 3

DockerSteps ==
    { Step_new("a", Script1),
      Step_new("b", <<"echo", " ", "2">>),
      Step_new("c", Script1) }

InitDockerfile ==
    /\ windows \in BOOLEAN
    /\ NoWatch
    /\ file = MissingFile
    /\ pc = "generate_dockerfile"
    /\ conf = None
    /\ action_vec = <<>>
    /\ idx = 1
    /\ step = 1
    /\ \E manual \in SeqsUpTo(DockerSteps, MaxSteps) \ {<<>>} :
          /\ input = Some(manual)
          /\ setup = Some(ExecInfo_new(SampleAction("docker", Some("rust:1.65"),
                                                    manual)))
    /\ outputs = <<>>
    /\ all_output = <<>>
    /\ result = None
    /\ spawned = <<>>
    /\ files = NoFiles
    /\ panic = ""

\* One call of generate_dockerfile: File::create may fail.
GenerateDockerfile ==
    /\ pc = "generate_dockerfile"
    /\ \E created \in BOOLEAN :
          IF created
          THEN /\ files' = (<<Unwrap(setup).source, "Dockerfile">>
                               :> dockerfile_text(Unwrap(setup))) @@ files
               /\ pc' = "generated"
               /\ panic' = panic
          ELSE /\ Abort("There was an issue regarding your dockerfile.")
               /\ files' = files
    /\ UNCHANGED <<watch_vars, windows, file, conf, action_vec, idx, step, setup, outputs,
                   all_output, result, spawned, input>>

NextDockerfile == GenerateDockerfile

SpecDockerfile == InitDockerfile /\ [][NextDockerfile]_vars

\* C9 as stated: for every non-empty manual, equal steps included, the
\* Dockerfile holds one RUN instruction with every step's script in manual
\* order, the continuation after every step but the last and none after the
\* last.
C9_AsStated ==
    pc = "generated" =>
        LET manual == Unwrap(input)
            n == Len(manual)
        IN  files[<<Unwrap(setup).source, "Dockerfile">>]
              = <<"FROM ", "rust:1.65", "\r\n", "WORKDIR /cider/app", "\r\n",
                  "COPY . ./", "\r\n", "RUN ">>
                \o Concat([i \in 1..n |->
                              IF i < n
                              THEN manual[i].script
                                       \o <<" ", "&&", " ", "\\", "\r\n", "    ">>
                              ELSE manual[i].script])

(***************************************************************************)
(* Path resolution on its own: RelativePath::to_path as the builder calls   *)
(* it (utils/parsing.rs) and clean_script_pathing (utils/executor.rs).       *)
(***************************************************************************)
\* The longest raw text drawn.
MaxPathLen == 5

PathAtoms == {".", "/", "x", " "}
PathRoots(win) == {<<"/", "a", "/", "b">>, current_dir(win)}

InitPath ==
    /\ windows \in BOOLEAN
    /\ NoWatch
    /\ file = MissingFile
    /\ pc = "path"
    /\ conf = None
    /\ action_vec = <<>>
    /\ idx = 0
    /\ step = 0
    /\ setup = None
    /\ outputs = <<>>
    /\ all_output = <<>>
    /\ result = None
    /\ spawned = <<>>
    /\ files = NoFiles
    /\ panic = ""
    /\ \E raw \in SeqsUpTo(PathAtoms, MaxPathLen), root \in PathRoots(windows) :
          input = Some([raw |-> raw, root |-> root])

\* RelativePath::new(raw).to_path(root), as parse_shared_config resolves a
\* directory.
ResolvePath ==
    /\ pc = "path"
    /\ outputs' = << to_path(Unwrap(input).raw, Unwrap(input).root, windows) >>
    /\ pc' = "resolved"
    /\ UNCHANGED <<watch_vars, windows, file, conf, action_vec, idx, step, setup,
                   all_output, result, spawned, files, panic, input>>

\* clean_script_pathing(raw)
CleanScriptPathing ==
    /\ pc = "path"
    /\ Unwrap(input).root = current_dir(windows)
    /\ outputs' = clean_script_pathing(Unwrap(input).raw, windows)
    /\ pc' = "cleaned"
    /\ UNCHANGED <<watch_vars, windows, file, conf, action_vec, idx, step, setup,
                   all_output, result, spawned, files, panic, input>>

NextPath == ResolvePath \/ CleanScriptPathing

SpecPath == InitPath /\ [][NextPath]_vars

\* The segments of a path: its pieces between separators of either kind.
Segments(p) ==
    Split([i \in 1..Len(p) |-> IF p[i] = "\\" THEN "/" ELSE p[i]], "/")

NoDotSegment(p) ==
    \A i \in 1..Len(Segments(p)) :
        Segments(p)[i] # <<".">> /\ Segments(p)[i] # <<".", ".">>

\* C10 as stated: resolving joins under the root and collapses "." and "..":
\* "../x" against "/a/b" is "/a/x", and no resolved path or cleaned script
\* token holds a "." or ".." segment.
C10_AsStated ==
    /\ pc = "resolved" =>
          /\ NoDotSegment(outputs[1])
          /\ (/\ Unwrap(input).raw = <<".", ".", "/", "x">>
              /\ Unwrap(input).root = <<"/", "a", "/", "b">>
              /\ ~windows)
                => outputs[1] = <<"/", "a", "/", "x">>
    /\ pc = "cleaned" => \A i \in 1..Len(outputs) : NoDotSegment(outputs[i])

\* The root followed by each component, each after one separator.
Joined(root, comps, win) ==
    root \o Concat([i \in 1..Len(comps) |-> <<MAIN_SEPARATOR(win)>> \o comps[i]])

NonEmptyPieces(raw) == SelectSeq(Split(raw, "/"), LAMBDA c : c # <<>>)

\* C10: resolving joins under the root every non-empty piece of the raw text
\* between "/", in order, each after one separator of the build, and keeps
\* the "." and ".." pieces as they are: "../x" against "/a/b" is "/a/b/../x";
\* a script token that holds "./" is resolved against the working directory
\* in the same way, every other token is left as it is.
C10_ResolveKeepsDots ==
    /\ pc = "resolved" =>
          /\ outputs[1] = Joined(Unwrap(input).root,
                                 NonEmptyPieces(Unwrap(input).raw), windows)
          /\ (/\ Unwrap(input).raw = <<".", ".", "/", "x">>
              /\ Unwrap(input).root = <<"/", "a", "/", "b">>
              /\ ~windows)
                => outputs[1] = <<"/", "a", "/", "b", "/", ".", ".", "/", "x">>
    /\ pc = "cleaned" =>
          LET tokens == Split(Unwrap(input).raw, " ")
          IN  /\ Len(outputs) = Len(tokens)
              /\ \A i \in 1..Len(tokens) :
                    outputs[i] =
                        IF \E k \in 1..(Len(tokens[i]) - 1) :
                               tokens[i][k] = "." /\ tokens[i][k + 1] = "/"
                        THEN Joined(current_dir(windows),
                                    NonEmptyPieces(tokens[i]), windows)
                        ELSE tokens[i]

\* "../x" resolved against "/a/b".
C10_Witness ==
    /\ pc = "resolved"
    /\ Unwrap(input).raw = <<".", ".", "/", "x">>
    /\ Unwrap(input).root = <<"/", "a", "/", "b">>
    /\ outputs = << <<"/", "a", "/", "b", "/", ".", ".", "/", "x">> >>

\* The levels of a built configuration, each with the raw document it was
\* built from: the root, the top-level actions, the pipelines, their actions.
ResolvedLevels(c, doc) ==
    {[raw |-> doc, cfg |-> c.s_config]}
      \cup {[raw |-> doc.kids[c.action_defs[i]], cfg |-> c.actions[i].shared_config] :
               i \in 1..Len(c.actions)}
      \cup {[raw |-> doc.kids[c.pipeline_defs[j]], cfg |-> c.pipelines[j].shared_config] :
               j \in 1..Len(c.pipelines)}
      \cup UNION {{[raw |-> doc.kids[c.pipeline_defs[j]].kids[
                               c.pipelines[j].pipeline_config.action_defs[k]],
                    cfg |-> c.pipelines[j].pipeline_config.actions[k].shared_config] :
                      k \in 1..Len(c.pipelines[j].pipeline_config.actions)} :
                  j \in 1..Len(c.pipelines)}

\* A raw text that starts with a path separator or holds a colon.
RawAbsolute(raw) == (raw # <<>> /\ raw[1] = "/") \/ (\E i \in 1..Len(raw) : raw[i] = ":")

\* A source_directory and the ignore_directories entries that look absolute
\* are stored as written.
AbsoluteSourceAndIgnoreKept(l) ==
    /\ (IsSome(l.raw.source_directory) /\ RawAbsolute(Unwrap(l.raw.source_directory)))
          => l.cfg.source = Unwrap(l.raw.source_directory)
    /\ IsSome(l.raw.ignore_directories) =>
          \A i \in 1..Len(Unwrap(l.raw.ignore_directories)) :
              RawAbsolute(Unwrap(l.raw.ignore_directories)[i])
                  => Unwrap(l.cfg.ignore_dirs)[i] = Unwrap(l.raw.ignore_directories)[i]

\* C11 as stated: at every level an output_directory, a source_directory and
\* an ignore_directories entry that starts with a path separator or holds a
\* colon is stored unchanged, without the working directory in front.
C11_AsStated ==
    IsSome(conf) =>
        \A l \in ResolvedLevels(Unwrap(conf), file.data) :
            /\ AbsoluteSourceAndIgnoreKept(l)
            /\ (IsSome(l.raw.output_directory)
                    /\ RawAbsolute(Unwrap(l.raw.output_directory)))
                  => l.cfg.output = Unwrap(l.raw.output_directory)

\* C11: at every level a source_directory and an ignore_directories entry
\* that starts with "/" or holds a colon is stored unchanged; a declared
\* output_directory is always put under the working directory, also when it
\* looks absolute: its non-empty pieces between "/" follow the working
\* directory, each after one separator.
C11_AbsolutePaths ==
    IsSome(conf) =>
        \A l \in ResolvedLevels(Unwrap(conf), file.data) :
            /\ AbsoluteSourceAndIgnoreKept(l)
            /\ IsSome(l.raw.output_directory)
                  => l.cfg.output
                       = Joined(current_dir(windows),
                                NonEmptyPieces(Unwrap(l.raw.output_directory)),
                                windows)

\* A pipeline that declares absolute paths: source kept, output under the
\* working directory; an action under it with an absolute ignore entry.
C11_Witness ==
    /\ IsSome(conf)
    /\ ~windows
    /\ \E l \in ResolvedLevels(Unwrap(conf), file.data) :
          /\ l.raw.source_directory = Some(<<"/", "abs", "/", "src">>)
          /\ l.raw.output_directory = Some(<<"/", "abs", "/", "out">>)
          /\ l.cfg.source = <<"/", "abs", "/", "src">>
          /\ l.cfg.output = <<"/", "w", "/", "abs", "/", "out">>
    /\ \E l \in ResolvedLevels(Unwrap(conf), file.data) :
          /\ l.raw.ignore_directories = Some(<< <<"a">>, <<"/", "abs", "/", "b">> >>)
          /\ Unwrap(l.cfg.ignore_dirs)[2] = <<"/", "abs", "/", "b">>

\* The subprocesses started for the action at index i of the list.
ProcsOf(i) == SelectSeq(spawned, LAMBDA p : p.action = i)

\* The log the executor builds for an action, given the subprocesses that
\* were run for it.
ExpectedLog(action, procs, win) ==
    LET manual == action.action_config.manual
        n == Len(manual)
        backend == to_lowercase(action.shared_config.backend)
        running == [k \in 1..n |-> <<"Running ", manual[k].name>>]
    IN  CASE backend = "docker" ->
               IF action.shared_config.image = None
               THEN << <<"There was no docker image found to build off of. Using Alpine Linux by default.">> >>
               ELSE <<>>
          [] backend \in {"batch", "bat"} /\ ~win ->
               << <<"A batch script was unable to be processed on Linux and was taken care of safely.">> >>
          [] backend \in {"bash", "batch", "bat"} /\ win ->
               Append(running, ClassifiedEntry(procs[1].stdout, procs[1].stderr))
          [] backend = "bash" /\ ~win ->
               [j \in 1..(2 * n) |->
                   IF j % 2 = 1 THEN running[(j + 1) \div 2]
                   ELSE ClassifiedEntry(procs[j \div 2].stdout, procs[j \div 2].stderr)]

\* C12: when exec_actions returns, its result holds one log per action of
\* the list, the log at index i being the one built by executing the action
\* at index i; the actions are executed in list order (a subprocess of a
\* later action is never started before one of an earlier action, and the
\* logs are pushed one per executed action).
C12_OneLogPerAction ==
    /\ \A k \in 1..(Len(spawned) - 1) : spawned[k].action <= spawned[k + 1].action
    /\ pc \in {"exec_actions", "done"} => Len(all_output) = idx - 1
    /\ pc = "done" =>
          /\ Len(Unwrap(result)) = Len(action_vec)
          /\ \A i \in 1..Len(action_vec) :
                Unwrap(result)[i] = ExpectedLog(action_vec[i], ProcsOf(i), windows)

\* A batch action that is skipped, then a bash action of one step.
C12_Witness ==
    /\ pc = "done"
    /\ ~windows
    /\ Len(action_vec) = 2
    /\ action_vec[1].shared_config.backend = "Batch"
    /\ Unwrap(result)
         = << << <<"A batch script was unable to be processed on Linux and was taken care of safely.">> >>,
              << <<"Running ", "s1">>, <<"hello">> >> >>

\* A name listed in pipelines or actions, at the top level or inside a
\* named pipeline, has no sub-document.
NamesMissingSubDocument(doc) ==
    \/ \E i \in 1..Len(Entries(doc.actions)) :
          Entries(doc.actions)[i] \notin DOMAIN doc.kids
    \/ \E j \in 1..Len(Entries(doc.pipelines)) :
          LET p == Entries(doc.pipelines)[j]
          IN  \/ p \notin DOMAIN doc.kids
              \/ /\ p \in DOMAIN doc.kids
                 /\ \E k \in 1..Len(Entries(doc.kids[p].actions)) :
                       Entries(doc.kids[p].actions)[k] \notin DOMAIN doc.kids[p].kids

\* C13: when the configuration file cannot be read, or a name listed in
\* pipelines or actions (top level or inside a pipeline) has no
\* sub-document, building the configuration panics and the pass starts no
\* subprocess.
C13_MissingConfigFailsBuild ==
    (/\ pc # "start"
     /\ \/ ~file.exists
        \/ file.exists /\ file.wellformed /\ NamesMissingSubDocument(file.data))
      => /\ pc = "panicked"
         /\ conf = None
         /\ action_vec = <<>>
         /\ spawned = <<>>

\* The missing sub-document is that of a pipeline's second action, after a
\* top-level action and a first pipeline action that are well formed.
C13_Witness ==
    /\ pc = "panicked"
    /\ panic = "Could not find action defined with appropriate tag"
    /\ file.data.pipelines = Some(<<"pm">>)
    /\ file.data.actions = Some(<<"a2">>)
    /\ spawned = <<>>

(***************************************************************************)
(* new_top_level called twice on the same file, from the same working       *)
(* directory (utils/parsing.rs).                                             *)
(***************************************************************************)
InitTwice == InitWith(BuildFiles)

\* A build that puts the working directory of the other platform in front.
BuildAgain_elsewhere ==
    /\ pc \in {"configured", "panicked"}
    /\ input' = Some(new_top_level(file, ~windows))
    /\ pc' = "rebuilt"
    /\ UNCHANGED <<watch_vars, windows, file, conf, action_vec, idx, step, setup, outputs,
                   all_output, result, spawned, files, panic>>

\* The second call of new_top_level: what it returns, or its panic.
BuildAgain ==
    /\ pc \in {"configured", "panicked"}
    /\ input' = Some(new_top_level(file, windows))
    /\ pc' = "rebuilt"
    /\ UNCHANGED <<watch_vars, windows, file, conf, action_vec, idx, step, setup, outputs,
                   all_output, result, spawned, files, panic>>

NextTwice == NewTopLevel \/ BuildAgain

SpecTwice == InitTwice /\ [][NextTwice]_vars

HoldsMarker(token) ==
    \/ \E k \in 1..(Len(token) - 1) : token[k] = "." /\ token[k + 1] = "/"
    \/ \E k \in 1..(Len(token) - 2) :
          token[k] = "." /\ token[k + 1] = "." /\ token[k + 2] = "/"

\* C15: clean_script_pathing returns one token per space-delimited token of
\* the script, in the same order; a token holding "./" or "../" is replaced
\* by that token resolved against the working directory, every other token
\* is returned as it is.
C15_CleanScriptTokens ==
    pc = "cleaned" =>
        LET script == Unwrap(input).raw
            tokens == Split(script, " ")
        IN  /\ Len(outputs)
                 = Cardinality({k \in 1..Len(script) : script[k] = " "}) + 1
            /\ Len(tokens) = Len(outputs)
            /\ \A i \in 1..Len(tokens) :
                  IF HoldsMarker(tokens[i])
                  THEN outputs[i] = to_path(tokens[i], current_dir(windows), windows)
                  ELSE outputs[i] = tokens[i]

\* A script of a plain token and a token that holds "./".
C15_Witness ==
    /\ pc = "cleaned"
    /\ ~windows
    /\ Unwrap(input).raw = <<"x", " ", ".", "/", "x">>
    /\ outputs = << <<"x">>, <<"/", "w", "/", ".", "/", "x">> >>

\* The field a setter is named after, and what its getter returns for the
\* value v that was set.
SetterField(name) ==
    CASE name = "set_metadata" -> "metadata"
      [] name = "set_title"    -> "title"
      [] name = "set_tags"     -> "tags"
      [] name = "set_language" -> "language"
      [] name = "set_backend"  -> "backend"
      [] name = "set_output"   -> "output"
      [] name = "set_source"   -> "source"

GetterResult(name, v) ==
    IF name \in {"set_metadata", "set_title", "set_tags"} THEN Some(v) ELSE v

\* C16 as stated: after set_F(v), for F one of metadata, title, tags,
\* language, backend, output, source, the getter get_F returns v and every
\* other field is unchanged; set_source(v) changes source to v and leaves
\* backend unchanged.
C16_AsStated ==
    (/\ pc = "setters"
     /\ IsSome(input)
     /\ Unwrap(input).setter # "set_image")
      => LET call == Unwrap(input)
             f == SetterField(call.setter)
             after == Unwrap(conf)
         IN  /\ after[f] = GetterResult(call.setter, call.arg)
             /\ \A g \in DOMAIN after \ {f} : after[g] = call.before[g]

(***************************************************************************)
(* C17: metadata and tags below the root.                                  *)
(***************************************************************************)
\* Every pipeline and action of a built configuration with its raw document
\* and the resolved configuration of the level it was built under.
LevelsBelowRoot(c, doc) ==
    {[raw |-> doc.kids[c.action_defs[i]], cfg |-> c.actions[i].shared_config,
      parent |-> c.s_config] : i \in 1..Len(c.actions)}
      \cup {[raw |-> doc.kids[c.pipeline_defs[j]], cfg |-> c.pipelines[j].shared_config,
             parent |-> c.s_config] : j \in 1..Len(c.pipelines)}
      \cup UNION {{[raw |-> doc.kids[c.pipeline_defs[j]].kids[
                               c.pipelines[j].pipeline_config.action_defs[k]],
                    cfg |-> c.pipelines[j].pipeline_config.actions[k].shared_config,
                    parent |-> c.pipelines[j].shared_config] :
                      k \in 1..Len(c.pipelines[j].pipeline_config.actions)} :
                  j \in 1..Len(c.pipelines)}

BashActionsCompleted ==
    {i \in 1..Len(action_vec) :
        i < idx /\ to_lowercase(action_vec[i].shared_config.backend) = "bash"}

CleanedStep(i, k) ==
    clean_script_pathing(action_vec[i].action_config.manual[k].script, windows)

\* The tokens of every step of action i in manual order, an ampersand pair
\* after each step whose script text is not that of the last step.
ChainedTokens(i) ==
    LET manual == action_vec[i].action_config.manual
    IN  Concat([k \in 1..Len(manual) |->
                   CleanedStep(i, k) \o
                     (IF manual[k].script # manual[Len(manual)].script
                      THEN << <<"&&">> >> ELSE <<>>)])

ProcessPanics ==
    { "Failed to execute",
      "Could not parse command output as a String.",
      "There was an error building your docker environment." }

Undecodable(bytes) == \E i \in 1..Len(bytes) : bytes[i] = InvalidByte

\* The subprocesses a bash or batch action runs when nothing stops it.
ExpectedProcessCount(action, win) ==
    LET backend == to_lowercase(action.shared_config.backend)
    IN  CASE backend = "bash" /\ ~win -> Len(action.action_config.manual)
          [] backend \in {"bash", "batch", "bat"} /\ win -> 1
          [] OTHER -> 0

Wired(action) ==
    [backend     |-> action.shared_config.backend,
     image       |-> action.shared_config.image,
     source      |-> action.shared_config.source,
     manual      |-> action.action_config.manual]

Command(program, args, cwd, stdio) ==
    [program |-> program, args |-> args, cwd |-> cwd, stdio |-> stdio]

Commands(procs) ==
    [k \in 1..Len(procs) |->
        Command(procs[k].program, procs[k].args, procs[k].cwd, procs[k].stdio)]

\* The subprocesses of an action, each step exactly once, computed from the
\* fields the executor reads and from nothing else.
ExpectedCommands(w, win) ==
    LET backend == to_lowercase(w.backend)
        n == Len(w.manual)
        cleaned == [k \in 1..n |-> clean_script_pathing(w.manual[k].script, win)]
        chained == Concat([k \in 1..n |->
                       cleaned[k] \o (IF w.manual[k].script # w.manual[n].script
                                      THEN << <<"&&">> >> ELSE <<>>)])
        image == IF IsNone(w.image) THEN "alpine:latest" ELSE Unwrap(w.image)
        shell == IF win THEN "cmd" ELSE "sh"
    IN  CASE backend = "bash" /\ ~win ->
               [k \in 1..n |->
                   Command("sh", << <<"-c">>, unix_arg_string(cleaned[k]) >>,
                           Some(w.source), "piped")]
          [] backend \in {"bash", "batch", "bat"} /\ win ->
               << Command("cmd", << <<"/C">> >> \o chained, Some(w.source), "piped") >>
          [] backend = "docker" ->
               << Command(shell, DockerCommand(<<"docker", "pull", image>>),
                          Some(w.source), "inherit"),
                  Command(shell,
                          DockerCommand(<<"docker", "image", "rm", "-f", "cider-image">>),
                          None, "inherit"),
                  Command(shell,
                          DockerCommand(IF win
                              THEN <<"docker", "build", "-t", "cider-image", ".", "--no-cache">>
                              ELSE <<"docker", "build", "-t", "cider-image", ".">>),
                          Some(w.source), "inherit") >>
          [] OTHER -> <<>>

IsPrefix(s, t) == Len(s) <= Len(t) /\ s = SubSeq(t, 1, Len(s))

AllPipelines == IF IsSome(conf) THEN Unwrap(conf).pipelines ELSE <<>>

\* C20: the subprocesses started for an action are those computed from its
\* backend, image, source and manual alone, in that order, each step exactly
\* once with no retry and no skipping, so two action lists that differ only
\* in retries, allowed_failure, conditions (and requires and has_run of their
\* pipelines) start the same subprocesses in the same order; has_run of
\* every pipeline is false at every point of the run.
C20_UnwiredFields ==
    /\ \A i \in 1..Len(action_vec) :
          LET expected == ExpectedCommands(Wired(action_vec[i]), windows)
          IN  /\ IsPrefix(Commands(ProcsOf(i)), expected)
              /\ i < idx => Commands(ProcsOf(i)) = expected
    /\ \A k \in 1..(Len(spawned) - 1) : spawned[k].action <= spawned[k + 1].action
    /\ \A j \in 1..Len(AllPipelines) : AllPipelines[j].pipeline_config.has_run = FALSE

\* The run ended on a list whose first action has retries 3, is allowed to
\* fail and holds a condition, and whose pipeline requires another one: the
\* first step exited with status 1 and was run once, the second step was run,
\* and has_run is still false.
C20_Witness ==
    /\ pc = "done"
    /\ ~windows
    /\ action_vec[1].action_config.retries = 3
    /\ action_vec[1].action_config.allowed_failure
    /\ IsSome(action_vec[1].action_config.conditions)
    /\ Len(ProcsOf(1)) = 2
    /\ ProcsOf(1)[1].status = 1
    /\ Len(ProcsOf(2)) = 3
    /\ AllPipelines[1].pipeline_config.requires = <<"p1">>
    /\ IsSome(AllPipelines[1].pipeline_config.conditions)
    /\ ~AllPipelines[1].pipeline_config.has_run

(***************************************************************************)
(* C21: the order of the docker backend.                                   *)
(***************************************************************************)
DockerStages ==
    {"docker_pull", "docker_pull_wait", "docker_clean", "docker_clean_wait",
     "docker_build", "docker_build_wait"}

SubstitutionLine ==
    <<"There was no docker image found to build off of. Using Alpine Linux by default.">>

\* The log, the image and the two texts of a docker action.
DockerLog(action) ==
    IF IsNone(action.shared_config.image) THEN <<SubstitutionLine>> ELSE <<>>

DockerImage(action) ==
    IF IsNone(action.shared_config.image) THEN "alpine:latest"
    ELSE Unwrap(action.shared_config.image)

IgnoreKey(action) == <<action.shared_config.source, ".dockerignore">>
DockerfileKey(action) == <<action.shared_config.source, "Dockerfile">>

IgnoreWritten(action) ==
    /\ IgnoreKey(action) \in DOMAIN files
    /\ files[IgnoreKey(action)]
          = Unwrap(dockerignore_text(ExecInfo_new(action), windows).val)

DockerfileWritten(action) ==
    /\ DockerfileKey(action) \in DOMAIN files
    /\ files[DockerfileKey(action)]
          = <<"FROM ", DockerImage(action), CRLF, "WORKDIR /cider/app", CRLF,
              "COPY . ./", CRLF, "RUN ">>
              \o dockerfile_run_part(action.action_config.manual)

\* C21: a docker action defaults its image and logs the substitution, writes
\* the ignore-file, writes the Dockerfile, then runs docker pull, the removal
\* of cider-image and the build of cider-image, in this order and each after
\* the one before has finished: while a stage runs both files hold the
\* action's texts and the log holds the substitution line or nothing; a
\* failure to create the Dockerfile comes after the ignore-file was written
\* and before any subprocess; the subprocesses are a prefix of pull, removal,
\* build; a subprocess is started only when the one before it has exited;
\* the log the action returns holds nothing but the optional line.
C21_DockerOrder ==
    /\ pc \in DockerStages =>
          /\ IgnoreWritten(action_vec[idx])
          /\ DockerfileWritten(action_vec[idx])
          /\ outputs = DockerLog(action_vec[idx])
    /\ (pc = "panicked" /\ panic = "There was an issue regarding your dockerfile.") =>
          /\ IgnoreWritten(action_vec[idx])
          /\ ProcsOf(idx) = <<>>
    /\ (pc = "panicked" /\ panic = "There was an issue regarding your dockerignore.") =>
          ProcsOf(idx) = <<>>
    /\ \A k \in 1..(Len(spawned) - 1) :
          spawned[k].stdio = "inherit" => spawned[k].started /\ spawned[k].exited
    /\ \A i \in 1..Len(action_vec) :
          to_lowercase(action_vec[i].shared_config.backend) = "docker" =>
              /\ IsPrefix(Commands(ProcsOf(i)),
                          ExpectedCommands(Wired(action_vec[i]), windows))
              /\ i < idx =>
                    /\ Len(ProcsOf(i)) = 3
                    /\ \A k \in 1..3 : ProcsOf(i)[k].exited
                    /\ all_output[i] = DockerLog(action_vec[i])

\* A docker action without an image stands before its build: both files are
\* written, the substitution line is logged, pull and removal have exited.
C21_Witness ==
    /\ pc = "docker_build"
    /\ IsNone(action_vec[idx].shared_config.image)
    /\ outputs = <<SubstitutionLine>>
    /\ DockerfileWritten(action_vec[idx])
    /\ files[DockerfileKey(action_vec[idx])][2] = "alpine:latest"
    /\ Len(ProcsOf(idx)) = 2
    /\ ProcsOf(idx)[2].exited
    /\ ProcsOf(idx)[2].args = DockerCommand(<<"docker", "image", "rm", "-f", "cider-image">>)

(***************************************************************************)
(* C22: files of the same names in the source directory.                   *)
(***************************************************************************)
OwnFiles == {OwnDockerfile, OwnDockerignore}

\* C22 as stated: when the source directory of a docker action already holds
\* a Dockerfile or a .dockerignore, the docker backend fails fatally instead
\* of writing: the file that was there is left unchanged and no docker
\* subprocess is started.
C22_AsStated ==
    [][\A k \in DOMAIN files :
          (files[k] \in OwnFiles /\ pc = "docker_setup"
              /\ k[1] = action_vec[idx].shared_config.source) =>
                /\ files'[k] = files[k]
                /\ pc' = "panicked"
                /\ spawned' = spawned]_vars

(***************************************************************************)
(* C23: the ignore-file of every resolved list.                            *)
(***************************************************************************)
\* The number of line ends in a text.
LineCount(text) == Cardinality({k \in 1..Len(text) : text[k] = CRLF})

\* C23 as stated: for every resolved ignore_dirs list, with default,
\* relative and absolute entries alike, generate_dockerignore completes
\* without failing and writes exactly one line per entry.
C23_AsStated ==
    /\ ~(pc = "panicked" /\ panic = "called Option::unwrap() on a None value")
    /\ pc \in DockerStages =>
          /\ IsSome(action_vec[idx].shared_config.ignore_dirs)
          /\ LineCount(files[IgnoreKey(action_vec[idx])])
                = Len(Unwrap(action_vec[idx].shared_config.ignore_dirs))

(***************************************************************************)
(* C27: ignore_dirs of every built level.                                  *)
(***************************************************************************)
\* A text that lies under the working directory or looks absolute.
AbsoluteResolved(dir, win) ==
    \/ RawAbsolute(dir)
    \/ /\ Len(dir) >= Len(current_dir(win))
       /\ SubSeq(dir, 1, Len(current_dir(win))) = current_dir(win)

\* C27 as stated: every ShareableConfiguration the builder produces, at the
\* root, pipeline and action level, has ignore_dirs present and non-empty
\* with every entry absolute-resolved, also for a document that declares an
\* empty ignore_directories array.
C27_AsStated ==
    IsSome(conf) =>
        \A l \in ResolvedLevels(Unwrap(conf), file.data) :
            /\ IsSome(l.cfg.ignore_dirs)
            /\ Unwrap(l.cfg.ignore_dirs) # <<>>
            /\ \A i \in 1..Len(Unwrap(l.cfg.ignore_dirs)) :
                  AbsoluteResolved(Unwrap(l.cfg.ignore_dirs)[i], windows)

(***************************************************************************)
(* C25: a batch action off Windows.                                        *)
(***************************************************************************)
BatchAction(action) ==
    to_lowercase(action.shared_config.backend) \in {"batch", "bat"}

\* C25: not on Windows, an action whose backend is batch or bat in any letter
\* case starts no subprocess, the run never panics while it is the action
\* being executed, its log is exactly the one line noting the skip, and the
\* run goes on: when it ends every action has its log.
C25_BatchSkipped ==
    ~windows =>
        /\ \A i \in 1..Len(action_vec) :
              BatchAction(action_vec[i]) =>
                  /\ ProcsOf(i) = <<>>
                  /\ ~(pc = "panicked" /\ idx = i)
                  /\ i < idx =>
                        all_output[i] =
                           << <<"A batch script was unable to be processed on Linux and was taken care of safely.">> >>
        /\ pc = "done" => Len(all_output) = Len(action_vec)

\* Not on Windows, the run ended after an action with backend "BAT" that
\* was skipped with one line and a bash action after it that ran its step.
C25_Witness ==
    /\ ~windows
    /\ pc = "done"
    /\ Len(action_vec) = 2
    /\ action_vec[1].shared_config.backend = "BAT"
    /\ ProcsOf(1) = <<>>
    /\ Len(all_output[1]) = 1
    /\ Len(ProcsOf(2)) = 1
    /\ ProcsOf(2)[1].program = "sh"

(***************************************************************************)
(* C30: the chained command on Windows.                                    *)
(***************************************************************************)
\* The cleaned tokens of every step of action i in manual order, one
\* ampersand pair between two consecutive steps and none after the last.
SeparatedTokens(i) ==
    LET n == Len(action_vec[i].action_config.manual)
    IN  Concat([k \in 1..n |->
                   CleanedStep(i, k) \o (IF k < n THEN << <<"&&">> >> ELSE <<>>)])

\* C30 as stated: on Windows, the one command of a bash or batch action holds
\* every step's cleaned tokens in manual order with exactly one "&&" between
\* two consecutive steps and none after the last, for every manual, also
\* when an earlier step has the script text of the last step.
C30_AsStated ==
    windows =>
        \A i \in 1..Len(action_vec) :
            (/\ i < idx
             /\ to_lowercase(action_vec[i].shared_config.backend)
                   \in {"bash", "batch", "bat"}) =>
                /\ Len(ProcsOf(i)) = 1
                /\ ProcsOf(i)[1].args = << <<"/C">> >> \o SeparatedTokens(i)

(***************************************************************************)
(* overwrite_top_level on its own (utils/parsing.rs, utils/config.rs).      *)
(***************************************************************************)
get_pipeline_defs(config) == config.pipeline_defs
set_pipeline_defs(config, new_pipeline_defs) ==
    [config EXCEPT !.pipeline_defs = new_pipeline_defs]

set_pipelines(config, new_pipelines) == [config EXCEPT !.pipelines = new_pipelines]

get_action_defs(config) == config.action_defs
set_action_defs(config, new_action_defs) ==
    [config EXCEPT !.action_defs = new_action_defs]

\* A setter that keeps the actions that were there and adds the new ones.
set_actions_appending(config, new_actions) ==
    [config EXCEPT !.actions = config.actions \o new_actions]

set_actions(config, new_actions) == [config EXCEPT !.actions = new_actions]

\* overwrite_top_level: the file is read and parsed, then the fields of the
\* configuration that was handed in are assigned one after the other.
overwrite_top_level(config, filename, win) ==
    IF ~filename.exists THEN Panic("There was an error locating your configuration file")
    ELSE IF ~filename.wellformed
    THEN Panic("There was an error parsing your configuration file")
    ELSE
    LET parsed_data == filename.data
        c1 == [config EXCEPT !.s_config = parse_shared_config(parsed_data, win)]
        c2 == set_pipeline_defs(c1,
                  IF IsNone(parsed_data.pipelines) THEN <<>>
                  ELSE parse_json_vector(parsed_data.pipelines))
        pipelines == parse_pipeline_defs(c2.s_config, parsed_data,
                                         get_pipeline_defs(c2), win)
    IN  IF ~pipelines.ok THEN Panic(pipelines.err)
        ELSE
        LET c3 == set_pipelines(c2, Unwrap(pipelines.val))
            c4 == set_action_defs(c3,
                      IF IsNone(parsed_data.actions) THEN <<>>
                      ELSE parse_json_vector(parsed_data.actions))
            actions == parse_action_defs(c4.s_config, get_action_defs(c4),
                                         parsed_data, win)
        IN  IF ~actions.ok THEN Panic(actions.err)
            ELSE Ok(set_actions(c4, Unwrap(actions.val)))

\* The files a configuration is built from and reloaded from: the lists of
\* names and the keys of the root vary.
ReloadLists(S) == {None, Some(<<>>)} \cup {Some(l) : l \in S}

ReloadRoots ==
    { EmptyObject,
      [EmptyObject EXCEPT !.language = Some("Rust"),
                          !.output_directory = Some(<<"out">>),
                          !.source_directory = Some(<<".", ".", "/", "x">>)],
      [EmptyObject EXCEPT !.backend = Some("Docker"), !.image = Some("rust:1.65"),
                          !.ignore_directories = Some(<< <<"a">> >>)] }

ReloadDocs ==
    { [root EXCEPT !.actions = acts, !.pipelines = pipes, !.kids = StructureKids]
      : root \in ReloadRoots,
        acts \in ReloadLists({<<"a1">>, <<"a2", "a1">>, <<"zz">>}),
        pipes \in ReloadLists({<<"p1">>, <<"p2", "p1">>, <<"pe">>}) }

ReloadFiles == {File(d) : d \in ReloadDocs} \cup {MissingFile, MalformedFile}

InitOverwrite == InitWith(ReloadFiles)

\* One reload: the file now holds any of the documents; the configuration
\* built before is handed to overwrite_top_level and is kept in input.
OverwriteTopLevel ==
    /\ pc = "configured"
    /\ \E f \in ReloadFiles :
         LET r == overwrite_top_level(Unwrap(conf), f, windows)
         IN  /\ file' = f
             /\ input' = conf
             /\ IF r.ok
                THEN /\ conf' = r.val
                     /\ pc' = "overwritten"
                     /\ panic' = panic
                ELSE /\ conf' = conf
                     /\ Abort(r.err)
    /\ UNCHANGED <<watch_vars, windows, action_vec, idx, step, setup, outputs, all_output,
                   result, spawned, files>>

NextOverwrite == NewTopLevel \/ OverwriteTopLevel

SpecOverwrite == InitOverwrite /\ [][NextOverwrite]_vars

\* C26: overwrite_top_level(config, file) gives what new_top_level(file)
\* gives, for every configuration handed in: the same root configuration,
\* pipeline names, pipelines, action names and actions, nothing of the
\* configuration handed in being left; and it panics exactly when
\* new_top_level panics on that file, with the same message.
C26_OverwriteEqualsNew ==
    /\ pc = "overwritten" =>
          /\ new_top_level(file, windows).ok
          /\ LET a == Unwrap(conf)
                 b == Unwrap(new_top_level(file, windows).val)
             IN  /\ a.s_config = b.s_config
                 /\ a.pipeline_defs = b.pipeline_defs
                 /\ a.pipelines = b.pipelines
                 /\ a.action_defs = b.action_defs
                 /\ a.actions = b.actions
    /\ (pc = "panicked" /\ IsSome(input)) =>
          /\ ~new_top_level(file, windows).ok
          /\ panic = new_top_level(file, windows).err

\* A configuration with two actions and two pipelines under a root that
\* declares its paths was reloaded from a document with one action, no
\* pipeline and an empty root.
C26_Witness ==
    /\ pc = "overwritten"
    /\ Len(Unwrap(input).actions) = 2
    /\ Len(Unwrap(input).pipelines) = 2
    /\ Unwrap(input).s_config.language = "Rust"
    /\ Len(Unwrap(conf).actions) = 1
    /\ Unwrap(conf).pipelines = <<>>
    /\ Unwrap(conf).pipeline_defs = <<>>
    /\ Unwrap(conf).s_config.language = "Python"

(***************************************************************************)
(* Watch mode (main.rs:64-84, 95-163).                                      *)
(* Time is counted in ticks of one second.  A path is the list of names    *)
(* from the source directory down; tree maps the paths that exist to their *)
(* time of modification.                                                   *)
(***************************************************************************)
\* The clock stops at MaxTime; a run of the actions takes up to MaxRunTicks;
\* at most MaxEvents changes come from outside.
MaxTime == 7
MaxRunTicks == 1
MaxEvents == 1

\* now - UNIX_EPOCH: the clock started EpochTicks after the epoch.
EpochTicks == 100
epoch_elapsed(t) == EpochTicks + t

\* read_dir, directory after directory: an entry is followed by the entries
\* of the directory it names.
ScanOrder ==
    << <<".dockerignore">>, <<"Dockerfile">>, <<"a">>, <<"b">>,
       <<"d">>, <<"d", "a">>, <<"dist">>, <<"dist", "z">>,
       <<"package-lock.json">> >>

WatchedDirs == { <<"d">>, <<"dist">> }
is_dir(p) == p \in WatchedDirs
file_name(p) == p[Len(p)]
parent(p) == SubSeq(p, 1, Len(p) - 1)

\* main.rs:117: the entries the scan passes over.  (No entry of the tree
\* has the extension class.)
skipped(p) == file_name(p) = "package-lock.json"

\* DirEntry::path() of an entry of the source directory, as a text.
entry_path(source, name, win) == source \o <<MAIN_SEPARATOR(win), name>>

\* ignore_dirs.contains(entry.path())
ignored(source, ignore_dirs, p, win) ==
    \E i \in 1..Len(ignore_dirs) : ignore_dirs[i] = entry_path(source, p[1], win)

\* The entries get_files_time_elapsed_since_changed comes to: those of the
\* source directory and those of each directory that is not ignored.
visited(fs, source, ignore_dirs, p, win) ==
    /\ p \in DOMAIN fs
    /\ ~skipped(p)
    /\ Len(p) > 1 =>
          /\ SubSeq(p, 1, 1) \in DOMAIN fs
          /\ ~ignored(source, ignore_dirs, p, win)

RECURSIVE scan_from(_, _, _, _, _, _, _)
\* get_files_time_elapsed_since_changed from the k-th entry on: the time
\* since the modification of each entry is put under its file name, an
\* entry scanned later replacing one of the same name; no key is removed.
scan_from(times, k, fs, t, source, ignore_dirs, win) ==
    IF k > Len(ScanOrder) THEN times
    ELSE LET p == ScanOrder[k]
         IN  IF visited(fs, source, ignore_dirs, p, win)
             THEN scan_from((file_name(p) :> (t - fs[p])) @@ times,
                            k + 1, fs, t, source, ignore_dirs, win)
             ELSE scan_from(times, k + 1, fs, t, source, ignore_dirs, win)

get_files_time_elapsed_since_changed(times, fs, t, s_config, win) ==
    scan_from(times, 1, fs, t, get_source(s_config),
              Unwrap(get_ignore_dirs(s_config)), win)

\* get_least_time: the least value of the map, and the time since the
\* epoch when there is none below it.
get_least_time(times, t) ==
    LET values == {times[n] : n \in DOMAIN times} \cup {epoch_elapsed(t)}
    IN  CHOOSE v \in values : \A w \in values : v <= w

\* A loop that compares with the least time it had at its start only.
watch_decision_stale(checked_time, recent) ==
    [run |-> checked_time < recent, recent |-> recent]

\* main.rs:70-76: the test of a poll and the value kept for the next one.
watch_decision(checked_time, recent) ==
    [run |-> checked_time < recent, recent |-> checked_time]

\* The files a run of the actions writes into the source directory: the
\* two files of the docker backend, when an action uses it.
written_by_run(actions) ==
    IF \E i \in 1..Len(actions) :
           to_lowercase(get_backend(actions[i].shared_config)) = "docker"
    THEN { <<".dockerignore">>, <<"Dockerfile">> }
    ELSE {}

\* The source directory at the start: every entry last modified at time 0.
OldTree(paths) == [p \in paths |-> 0]

InitialTrees ==
    { OldTree({ <<"a">>, <<"b">>, <<"d">>, <<"d", "a">>, <<"dist">>, <<"dist", "z">>,
                <<"package-lock.json">> }),
      OldTree({ <<"a">>, <<"b">> }),
      OldTree({}) }

\* The program starts one tick or three ticks after time 0.
StartTimes == {1, 3}

WatchFiles == { File(MainDoc(<<"a2">>, <<>>)), File(MainDoc(<<"d1">>, <<>>)) }

\* What is known of the polls: their number, the paths whose time of
\* modification changed since the poll before (all of them, and those changed
\* from outside), what the last poll had of both, whether it ran the actions,
\* and the two least times it compared.
NoPolls ==
    [polls |-> 0, events |-> 0, pending |-> {}, pending_external |-> {},
     seen |-> {}, seen_external |-> {}, scanned |-> FALSE, triggered |-> FALSE,
     checked |-> 0, previous |-> 0]

InitWatch ==
    /\ windows \in BOOLEAN
    /\ file \in WatchFiles
    /\ pc = "start"
    /\ conf = None
    /\ action_vec = <<>>
    /\ idx = 0
    /\ step = 0
    /\ setup = None
    /\ outputs = <<>>
    /\ all_output = <<>>
    /\ result = None
    /\ spawned = <<>>
    /\ files = NoFiles
    /\ panic = ""
    /\ input = Some(NoPolls)
    /\ now \in StartTimes
    /\ tree \in InitialTrees
    /\ elapsed_times = NoFiles
    /\ recent_file_changed = 0



\* main.rs:65-66: the map is empty, the least time is the time since the epoch.
WatchStart ==
    /\ pc = "run"
    /\ elapsed_times' = NoFiles
    /\ recent_file_changed' = get_least_time(NoFiles, now)
    /\ pc' = "poll"
    /\ UNCHANGED <<windows, file, conf, action_vec, idx, step, setup, outputs,
                   all_output, result, spawned, files, panic, input, now, tree>>

\* main.rs:68-76: one scan, the least time, the test.
WatchPoll ==
    /\ pc = "poll"
    /\ LET times == get_files_time_elapsed_since_changed(
                        elapsed_times, tree, now, Unwrap(conf).s_config, windows)
           decision == watch_decision(get_least_time(times, now), recent_file_changed)
           seen_now == Unwrap(input)
       IN  /\ elapsed_times' = times
           /\ recent_file_changed' = decision.recent
           /\ pc' = IF decision.run THEN "watch_run" ELSE "sleep"
           /\ input' = Some([seen_now EXCEPT
                                !.polls = @ + 1,
                                !.seen = seen_now.pending,
                                !.seen_external = seen_now.pending_external,
                                !.scanned = (DOMAIN times # {}),
                                !.triggered = decision.run,
                                !.checked = decision.recent,
                                !.previous = recent_file_changed,
                                !.pending = {},
                                !.pending_external = {}])
    /\ UNCHANGED <<windows, file, conf, action_vec, idx, step, setup, outputs,
                   all_output, result, spawned, files, panic, now, tree>>

\* main.rs:71-74: the configuration is built again and its actions are
\* executed; the docker backend writes its two files at the start of the
\* run; the run takes some time and may panic.
WatchRun ==
    /\ pc = "watch_run"
    /\ \E ticks \in 0..MaxRunTicks, completes \in BOOLEAN :
         LET r == new_top_level(file, windows)
             actions == get_all_actions(Unwrap(r.val))
             written == written_by_run(actions)
         IN  /\ now + ticks <= MaxTime
             /\ IF ~r.ok
                THEN /\ Abort(r.err)
                     /\ UNCHANGED <<tree, now, all_output, input>>
                ELSE /\ tree' = [p \in written |-> now] @@ tree
                     /\ now' = now + ticks
                     /\ input' = Some([Unwrap(input) EXCEPT
                                          !.pending = @ \cup written])
                     /\ IF completes
                        THEN /\ all_output' = Append(all_output,
                                    [k \in 1..Len(actions) |->
                                        get_title(actions[k].shared_config)])
                             /\ pc' = "sleep"
                             /\ panic' = panic
                        ELSE /\ all_output' = all_output
                             /\ Abort("Failed to execute")
    /\ UNCHANGED <<windows, file, conf, action_vec, idx, step, setup, outputs,
                   result, spawned, files, elapsed_times, recent_file_changed>>

\* main.rs:83: thread::sleep of two seconds, one tick at a time.
WatchSleep ==
    /\ pc \in {"sleep", "sleep_half"}
    /\ now < MaxTime
    /\ now' = now + 1
    /\ pc' = IF pc = "sleep" THEN "sleep_half" ELSE "poll"
    /\ UNCHANGED <<windows, file, conf, action_vec, idx, step, setup, outputs,
                   all_output, result, spawned, files, panic, input, tree,
                   elapsed_times, recent_file_changed>>

\* The entries the scan of the loop comes to.
watched(fs, p) ==
    visited(fs, get_source(Unwrap(conf).s_config),
            Unwrap(get_ignore_dirs(Unwrap(conf).s_config)), p, windows)

\* From outside, while the loop sleeps: a file is modified.
ModifyFile ==
    /\ pc \in {"sleep", "sleep_half"}
    /\ Unwrap(input).events < MaxEvents
    /\ \E p \in DOMAIN tree :
          LET changed == IF watched(tree, p) THEN {p} ELSE {}
          IN  /\ ~is_dir(p)
              /\ tree[p] < now
              /\ tree' = [tree EXCEPT ![p] = now]
              /\ input' = Some([Unwrap(input) EXCEPT
                                   !.events = @ + 1,
                                   !.pending = @ \cup changed,
                                   !.pending_external = @ \cup changed])
    /\ UNCHANGED <<windows, file, pc, conf, action_vec, idx, step, setup, outputs,
                   all_output, result, spawned, files, panic, now,
                   elapsed_times, recent_file_changed>>

\* From outside, while the loop sleeps: a file is deleted; the directory
\* that held it, when it is below the source directory, is modified by it.
DeleteFile ==
    /\ pc \in {"sleep", "sleep_half"}
    /\ Unwrap(input).events < MaxEvents
    /\ \E p \in {<<"b">>, <<"d", "a">>} \cap DOMAIN tree :
          LET left == [q \in DOMAIN tree \ {p} |-> tree[q]]
              changed == IF Len(p) > 1 /\ watched(tree, parent(p))
                         THEN {parent(p)} ELSE {}
          IN  /\ tree' = [q \in DOMAIN left |->
                             IF q \in changed THEN now ELSE left[q]]
              /\ input' = Some([Unwrap(input) EXCEPT
                                   !.events = @ + 1,
                                   !.pending = @ \cup changed,
                                   !.pending_external = @ \cup changed])
    /\ UNCHANGED <<windows, file, pc, conf, action_vec, idx, step, setup, outputs,
                   all_output, result, spawned, files, panic, now,
                   elapsed_times, recent_file_changed>>

NextWatch ==
    \/ NewTopLevel
    \/ CreateOutputFile
    \/ WatchStart
    \/ WatchPoll
    \/ WatchRun
    \/ WatchSleep
    \/ ModifyFile
    \/ DeleteFile

SpecWatch == InitWatch /\ [][NextWatch]_vars

(***************************************************************************)
(* C24: a poll and the changes since the poll before it.                   *)
(***************************************************************************)
LastPoll == Unwrap(input)

Untied == LastPoll.checked # LastPoll.previous

\* C28 as stated: a poll after the first that follows the modification of a
\* watched file runs the actions.
C28_AsStated ==
    LastPoll.polls > 1 /\ Untied /\ (\E p \in LastPoll.seen_external : ~is_dir(p))
        => LastPoll.triggered

(***************************************************************************)
(* C29: the files the run itself writes.                                   *)
(***************************************************************************)
\* C29 as stated: a poll after the first with no change from outside since
\* the poll before it does not run the actions.
C29_AsStated ==
    LastPoll.polls > 1 /\ LastPoll.seen_external = {} => ~LastPoll.triggered

=============================================================================
